---- MODULE Spec2Model ----
(***************************************************************************)
(* Model of the submission-processing pipeline of omj-validator:           *)
(*   - the response parser            (src/app/ai/parsing.py)              *)
(*   - the admission gate             (src/app/main.py, submit_solution)   *)
(*   - the pipeline orchestrator      (src/app/websocket/handler.py)       *)
(*   - the progress hub               (src/app/websocket/progress.py)      *)
(*   - the persisted submission row   (src/app/db/repositories.py)         *)
(*   - the remote-file cache and the inference call                        *)
(*                                    (src/app/ai/providers/gemini.py)     *)
(* The specifications share the variables; each drives one group of them   *)
(* and keeps the others at their idle values: Spec (one accepted           *)
(* submission driven by its background task), SpecParse, SpecNormalize,    *)
(* SpecAdmit, SpecHub, SpecSweep, SpecChannel, SpecCache, SpecInfer,       *)
(* SpecRetry, SpecStream, SpecRace (concurrent submit requests),           *)
(* SpecDeadline (the poll loop against the clock), SpecShare (cleanup of   *)
(* uploaded files next to concurrent calls) and SpecThinking (reasoning    *)
(* chunks on a filled buffer).                                             *)
(***************************************************************************)
EXTENDS Integers, Sequences, FiniteSets, TLC

VARIABLES
    \* ---- parser (SpecParse)
    ptext,      \* the backend's answer text, a sequence of tokens
    petap,      \* the stage the answer is parsed for
    presult,    \* <<the SubmissionResult returned>>, or <<>> before the call
    \* ---- admission gate (SpecAdmit)
    apc,        \* position of the submit_solution request
    areq,       \* the request's inputs: allow-listed, counts, images, task pdf
    aresp,      \* the HTTP status returned, 0 while the request runs
    afiles,     \* number of image files stored by the request
    arecords,   \* number of submission rows created by the request
    ahub,       \* number of hub entries created by the request
    atasks,     \* number of background tasks started by the request
    achecked,   \* TRUE once the admission check has finished
    \* ---- orchestrator, hub and persisted row (Spec)
    pc,         \* position of process_submission_background
    sub,        \* the persisted submission row
    hub,        \* the hub's entry for the submission (NoEntry when absent)
    conn,       \* per websocket handler: "idle", "replay", "open", "linger", "closed"
    inflight,   \* the send a running _broadcast is awaiting (NoFlight when none)
    exc,        \* the exception the task is handling (NoExc when none)
    result,     \* <<the result analyze_solution_stream returned>>, or <<>>
    heading,    \* send_thinking's new_heading while it awaits the translation
    chunks,     \* thinking chunks streamed so far
    env,        \* what failed outside the hub, and what the hub's sends did (ghost)
    etap,       \* the stage of the submitted task
    stale,      \* TRUE once the row is older than SUBMISSION_TIMEOUT_SECONDS
    hubAged,    \* TRUE once the hub entry is older than _CLEANUP_TTL_SECONDS
    calls,      \* the terminal hub call the task made (ghost)
    \* ---- score normalization (SpecNormalize)
    nscore,     \* the raw score given to normalize_omj_score
    nstage,     \* the stage given to normalize_omj_score
    nresult,    \* <<the score returned>>, or <<>> before the call
    \* ---- the progress hub and its callers (SpecHub)
    table,      \* ProgressManager._submissions[id], NoEntry when absent
    aged,       \* the entry is older than _CLEANUP_TTL_SECONDS
    opos,       \* position of the caller that creates the entry and pushes
    ohead,      \* the heading send_thinking is translating, "" when none
    oseq,       \* the number of the send_thinking call that translates (ghost)
    ochunks,    \* thinking chunks given to send_thinking so far
    ncalls,     \* push calls made so far; a call's number is its rank (ghost)
    lastPushed, \* the status broadcast last, "" when none (ghost)
    lostSince,  \* the entry was removed after that broadcast (ghost)
    terminal,   \* <<the terminal message pushed>>, <<>> before (ghost)
    inbox,      \* per websocket: what was written to it while its register runs
    wseq,       \* per websocket: number of the push call written to it last, 0 when
                \* none was or its handler has ended
    wpc,        \* per websocket: position of websocket_submission_handler
    wqueue,     \* per websocket: messages_to_send still to be sent by register
    wprog,      \* per websocket: the entry object register returned
    wsnap,      \* per websocket: what held when it connected (ghost)
    \* ---- cleanup_stale applied to a table of entries (SpecSweep)
    sentries,   \* the table before the call: id -> entry
    snow,       \* time.time() of the call
    sswept,     \* <<[table after, count returned]>>, <<>> before the call
    \* ---- the websocket endpoint of a submission (SpecChannel)
    cpc,        \* position of websocket_submission_progress
    creq,       \* the connection's inputs: settings, session cookie, row, hub entry
    cuser,      \* user_id as the endpoint derived it, "" for None
    ccode,      \* the code the endpoint closed the websocket with, 0 when it did not
    chub,       \* the hub's entry for the submission
    csent,      \* messages written to the websocket
    \* ---- the remote-file cache entry of one local path (SpecCache)
    fcache,     \* _file_cache[path]: <<CachedFile>>, <<>> when absent
    fcontent,   \* the content hash of the local file now
    fclock,     \* position of time.time() in ClockTimes
    fuploads,   \* calls of client.files.upload issued so far (ghost)
    fmutated,   \* the local file's content was changed after the first call began (ghost)
    fcall,      \* per caller of _upload_file: its position, locals and what it did
    \* ---- one analyze_solution call and its attachments (SpecInfer)
    ipc,        \* position of analyze_solution / analyze_solution_stream
    ifiles,     \* per attachment: "idle", "inflight", "uploaded" or "failed"
    icache,     \* gemini names held by _file_cache.values()
    iuploaded,  \* the local uploaded_files of the call
    ioutcome,   \* how the call ends: "", "success", "timeout", "backend", "upload"
    inames,     \* cached_names of the running _cleanup_files
    inext,      \* index of the file _cleanup_files handles next
    ideletes,   \* names client.files.delete was called with, in order (ghost)
    idelfailed, \* names whose delete raised (ghost)
    ihad,       \* names uploaded when the finally clause began (ghost)
    \* ---- _calculate_retry_after (SpecRetry)
    roldest,    \* <<the oldest timestamp of the window>>, <<>> for None; in ticks
    rnow,       \* datetime.now() of the call, in ticks
    rresult,    \* <<the seconds returned>>, <<>> before the call
    \* ---- the stream worker thread and the polling consumer (SpecStream)
    qitems,     \* chunk_queue
    qtotal,     \* chunks the response stream holds
    qput,       \* chunks the worker has put so far
    qdone,      \* stream_done_event
    qerror,     \* stream_error is set
    qworker,    \* position of stream_to_queue
    qconsumer,  \* position of the poll loop
    qtaken,     \* chunks the consumer has taken, in order
    \* ---- concurrent submit requests of one user (main.py submit_solution)
    gpc,        \* position of each concurrent submit request
    gucount,    \* the user's submission rows inside the window
    ggcount,    \* all submission rows inside the window
    gseen,      \* the counts each request read at its check
    \* ---- the poll loop of analyze_solution_stream against its deadline
    tclock,     \* time since start_wait, in poll intervals
    tstream,    \* the upstream response: endless or the chunks left
    tworker,    \* position of stream_to_queue
    tqueue,     \* chunks in chunk_queue
    tdone,      \* stream_done_event
    terror,     \* stream_error is set
    tloop,      \* position of the caller of the stream
    twake,      \* the time at which the current wait ends
    tout,       \* how analyze_solution_stream left the loop
    tlate,      \* chunks put after analyze_solution_stream returned
    \* ---- the release of the references handed out by _upload_file
    frelease    \* what the cleanup of each call did with its reference

parseVars == <<ptext, petap, presult>>
admitVars == <<apc, areq, aresp, afiles, arecords, ahub, atasks, achecked>>
pipeVars  ==
    <<pc, sub, hub, conn, inflight, exc, result, heading, chunks, env, etap, stale,
      hubAged, calls>>
normVars  == <<nscore, nstage, nresult>>
hubVars   == <<table, aged, opos, ohead, oseq, ochunks, ncalls, lastPushed, lostSince,
               terminal, inbox, wseq, wpc, wqueue, wprog, wsnap>>
sweepVars == <<sentries, snow, sswept>>
chanVars  == <<cpc, creq, cuser, ccode, chub, csent>>
cacheVars == <<fcache, fcontent, fclock, fuploads, fmutated, fcall>>
inferVars == <<ipc, ifiles, icache, iuploaded, ioutcome, inames, inext, ideletes,
               idelfailed, ihad>>
retryVars == <<roldest, rnow, rresult>>
streamVars == <<qitems, qtotal, qput, qdone, qerror, qworker, qconsumer, qtaken>>
raceVars == <<gpc, gucount, ggcount, gseen>>
deadlineVars == <<tclock, tstream, tworker, tqueue, tdone, terror, tloop, twake, tout, tlate>>
releaseVars == <<frelease>>
laterVars == <<sweepVars, chanVars, cacheVars, inferVars, retryVars, streamVars, raceVars, deadlineVars, releaseVars>>
vars      == <<parseVars, admitVars, pipeVars, normVars, hubVars, laterVars>>

\* ------------------------------------------------------------------------
\* Bounds of the model
\* ------------------------------------------------------------------------
MaxRawScore == 8        \* raw scores range over -MinusRawScore..MaxRawScore
MinusRawScore == 2
MaxNoise == 1           \* prose tokens put before and after the payload
MaxSockets == 1         \* websocket connections that may be opened
MaxChunks == 1          \* thinking chunks the backend may stream
MaxNormScore == 20      \* normalize_omj_score is applied to -MaxNormScore..MaxNormScore
MaxHubSockets == 2      \* websockets that connect to the hub entry in SpecHub
MaxSweepEntries == 2    \* entries in the table cleanup_stale is applied to
AgeSlack == 1           \* entry ages range over the TTL minus and plus AgeSlack
MaxHubChunks == 1       \* thinking chunks given to send_thinking in SpecHub
CountSlack == 1         \* window counts range around each ceiling by this much

\* ------------------------------------------------------------------------
\* Texts.  A text is a sequence of tokens; a token stands for a run of
\* characters of one kind:
\*   "W" a prose word        "S" whitespace          "," a comma
\*   "{" "}" braces          "Q" a double quote      "E" backslash + quote
\*   "F" a ``` fence         "FJ" a ```json fence
\*   "Ks" "Kf" "Ki" "Ka"  the keys "score": "feedback": "issue_type":
\*                        "abuse_score": (quotes and colon included)
\*   "num" an integer literal n   "flt" a float literal with integer part n
\*   "null" the literal null
\* ------------------------------------------------------------------------
Tok(k)  == [k |-> k, n |-> 0, s |-> ""]
Num(n)  == [k |-> "num", n |-> n, s |-> ""]
Flt(n)  == [k |-> "flt", n |-> n, s |-> ""]
Word(s) == [k |-> "W", n |-> 0, s |-> s]

KeyKinds == {"Ks", "Kf", "Ki", "Ka"}
KeyName(k) == CASE k = "Ks" -> "score"
                [] k = "Kf" -> "feedback"
                [] k = "Ki" -> "issue_type"
                [] OTHER    -> "abuse_score"

\* A decoded JSON value: t is its type, n its number, s its string content.
IntV(n)   == [t |-> "int", n |-> n, s |-> <<>>]
FloatV(n) == [t |-> "float", n |-> n, s |-> <<>>]
StrV(s)   == [t |-> "str", n |-> 0, s |-> s]
NullV     == [t |-> "null", n |-> 0, s |-> <<>>]

EmptyDict == <<>>
DictPut(d, key, v) == [x \in (DOMAIN d) \cup {key} |-> IF x = key THEN v ELSE d[x]]
DictGet(d, key, default) == IF key \in DOMAIN d THEN d[key] ELSE default

Min(a, b) == IF a < b THEN a ELSE b
Max(a, b) == IF a > b THEN a ELSE b

\* ------------------------------------------------------------------------
\* json.loads on a token sequence (objects of scalar members; no nesting)
\* ------------------------------------------------------------------------
RECURSIVE SkipWs(_, _)
SkipWs(t, i) == IF i <= Len(t) /\ t[i].k = "S" THEN SkipWs(t, i + 1) ELSE i

RECURSIVE StringEnd(_, _)
\* index of the quote closing a string whose content starts at i, 0 if none
StringEnd(t, i) ==
    IF i > Len(t) THEN 0
    ELSE IF t[i].k = "Q" THEN i
    ELSE IF t[i].k \in KeyKinds THEN 0
    ELSE StringEnd(t, i + 1)

DecodeFail == [ok |-> FALSE, d |-> EmptyDict]
ValueFail  == [ok |-> FALSE, val |-> NullV, next |-> 0]

JsonValue(t, i) ==
    IF i > Len(t) THEN ValueFail
    ELSE CASE t[i].k = "num"  -> [ok |-> TRUE, val |-> IntV(t[i].n), next |-> i + 1]
           [] t[i].k = "flt"  -> [ok |-> TRUE, val |-> FloatV(t[i].n), next |-> i + 1]
           [] t[i].k = "null" -> [ok |-> TRUE, val |-> NullV, next |-> i + 1]
           [] t[i].k = "Q"    ->
                LET j == StringEnd(t, i + 1) IN
                IF j = 0 THEN ValueFail
                ELSE [ok |-> TRUE, val |-> StrV(SubSeq(t, i + 1, j - 1)), next |-> j + 1]
           [] OTHER -> ValueFail

JsonFinish(t, j, d) ==
    IF SkipWs(t, j) > Len(t) THEN [ok |-> TRUE, d |-> d] ELSE DecodeFail

RECURSIVE JsonMembers(_, _, _)
JsonMembers(t, i, d) ==
    IF i > Len(t) \/ t[i].k \notin KeyKinds THEN DecodeFail
    ELSE LET v == JsonValue(t, SkipWs(t, i + 1)) IN
         IF ~v.ok THEN DecodeFail
         ELSE LET d2 == DictPut(d, KeyName(t[i].k), v.val)
                  j  == SkipWs(t, v.next)
              IN  IF j > Len(t) THEN DecodeFail
                  ELSE IF t[j].k = "}" THEN JsonFinish(t, j + 1, d2)
                  ELSE IF t[j].k = "," THEN JsonMembers(t, SkipWs(t, j + 1), d2)
                  ELSE DecodeFail

json_loads(t) ==
    LET i0 == SkipWs(t, 1) IN
    IF i0 > Len(t) \/ t[i0].k # "{" THEN DecodeFail
    ELSE LET i1 == SkipWs(t, i0 + 1) IN
         IF i1 <= Len(t) /\ t[i1].k = "}" THEN JsonFinish(t, i1 + 1, EmptyDict)
         ELSE JsonMembers(t, i1, EmptyDict)

\* ------------------------------------------------------------------------
\* _extract_json_from_text: four strategies, first success wins
\* ------------------------------------------------------------------------
NotFound == [found |-> FALSE, d |-> EmptyDict]
Found(d) == [found |-> TRUE, d |-> d]
Indices(t) == 1..Len(t)
MinOf(S) == CHOOSE x \in S : \A y \in S : x <= y

\* re.search(r'<open>\s*(\{[\s\S]*?\})\s*```', text): the group of the leftmost
\* match, shortest for its start, or <<>> when the pattern does not match.
\* A ```json fence also begins with ```, so either fence closes the block.
FenceEnds(t, a) ==
    {b \in Indices(t) : /\ b > a
                        /\ t[b].k = "}"
                        /\ LET c == SkipWs(t, b + 1)
                           IN  c <= Len(t) /\ t[c].k \in {"F", "FJ"}}
FenceStarts(t, open) ==
    {i \in Indices(t) : /\ t[i].k = open
                        /\ LET a == SkipWs(t, i + 1)
                           IN  a <= Len(t) /\ t[a].k = "{" /\ FenceEnds(t, a) # {}}
CodeBlockGroup(t, open) ==
    IF FenceStarts(t, open) = {} THEN <<>>
    ELSE LET i == MinOf(FenceStarts(t, open))
             a == SkipWs(t, i + 1)
         IN  SubSeq(t, a, MinOf(FenceEnds(t, a)))

\* find_balanced_json: the scan from one opening brace.  Returns the index of
\* the brace that brings the depth back to 0, or 0 when the text ends first.
\* A key token holds two quotes, so it leaves in_string as it was; "E" is a
\* backslash followed by a quote: skipped inside a string, a quote outside.
RECURSIVE BalancedEnd(_, _, _, _)
BalancedEnd(t, i, depth, in_string) ==
    IF i > Len(t) THEN 0
    ELSE CASE t[i].k = "Q" -> BalancedEnd(t, i + 1, depth, ~in_string)
           [] t[i].k = "E" -> BalancedEnd(t, i + 1, depth, TRUE)
           [] t[i].k = "{" /\ ~in_string -> BalancedEnd(t, i + 1, depth + 1, in_string)
           [] t[i].k = "}" /\ ~in_string ->
                IF depth - 1 = 0 THEN i
                ELSE BalancedEnd(t, i + 1, depth - 1, in_string)
           [] OTHER -> BalancedEnd(t, i + 1, depth, in_string)

HasScoreKey(t) == \E i \in Indices(t) : t[i].k = "Ks"

\* the start indices whose balanced candidate holds the key "score"
BalancedStarts(t) ==
    {i \in Indices(t) : /\ t[i].k = "{"
                        /\ BalancedEnd(t, i, 0, FALSE) # 0
                        /\ HasScoreKey(SubSeq(t, i, BalancedEnd(t, i, 0, FALSE)))}
find_balanced_json(t) ==
    IF BalancedStarts(t) = {} THEN <<>>
    ELSE LET i == MinOf(BalancedStarts(t))
         IN  SubSeq(t, i, BalancedEnd(t, i, 0, FALSE))

\* re.search(r'\{[^{}]*"score"\s*:\s*\d+[^{}]*\}', text, re.DOTALL)
FlatEnd(t, i) ==
    LET braces == {j \in Indices(t) : j > i /\ t[j].k \in {"{", "}"}}
    IN  IF braces = {} THEN 0
        ELSE IF t[MinOf(braces)].k = "}" THEN MinOf(braces) ELSE 0
ScoreDigitsIn(t, i, j) ==
    \E x \in (i + 1)..(j - 1) :
        /\ t[x].k = "Ks"
        /\ LET y == SkipWs(t, x + 1)
           IN  y < j /\ t[y].k \in {"num", "flt"} /\ t[y].n >= 0
FlatStarts(t) ==
    {i \in Indices(t) : /\ t[i].k = "{"
                        /\ FlatEnd(t, i) # 0
                        /\ ScoreDigitsIn(t, i, FlatEnd(t, i))}
FlatGroup(t) ==
    IF FlatStarts(t) = {} THEN <<>>
    ELSE LET i == MinOf(FlatStarts(t)) IN SubSeq(t, i, FlatEnd(t, i))

Strategy4(t) ==
    IF FlatGroup(t) # <<>> /\ json_loads(FlatGroup(t)).ok
    THEN Found(json_loads(FlatGroup(t)).d) ELSE NotFound
Strategy3(t) ==
    IF find_balanced_json(t) # <<>> /\ json_loads(find_balanced_json(t)).ok
    THEN Found(json_loads(find_balanced_json(t)).d) ELSE Strategy4(t)
Strategy2b(t) ==
    IF CodeBlockGroup(t, "F") # <<>> /\ json_loads(CodeBlockGroup(t, "F")).ok
    THEN Found(json_loads(CodeBlockGroup(t, "F")).d) ELSE Strategy3(t)
Strategy2(t) ==
    IF CodeBlockGroup(t, "FJ") # <<>> /\ json_loads(CodeBlockGroup(t, "FJ")).ok
    THEN Found(json_loads(CodeBlockGroup(t, "FJ")).d) ELSE Strategy2b(t)
extract_json_from_text(t) ==
    LET i0 == SkipWs(t, 1) IN
    IF i0 <= Len(t) /\ t[i0].k = "{" /\ json_loads(t).ok
    THEN Found(json_loads(t).d) ELSE Strategy2(t)

\* ------------------------------------------------------------------------
\* normalize_omj_score and parse_ai_response
\* ------------------------------------------------------------------------
VALID_SCORES_ETAP1 == {0, 1, 3}
VALID_SCORES_ETAP2 == {0, 2, 5, 6}
ValidScores(stage) == IF stage = "etap1" THEN VALID_SCORES_ETAP1 ELSE VALID_SCORES_ETAP2

WRONG_TASK_FEEDBACK ==
    "Uwaga: Przeslane rozwiazanie prawdopodobnie nie dotyczy tego zadania. Sprawdz numer zadania i przeslij poprawne rozwiazanie."
INJECTION_FEEDBACK ==
    "Nie udalo sie przeanalizowac rozwiazania. Upewnij sie, ze zdjecia zawieraja wyrazne rozwiazanie zadania matematycznego."
NO_JSON_FEEDBACK == "Nie udalo sie przetworzyc odpowiedzi{provider}. Sprobuj ponownie."
ERROR_FEEDBACK   == "Blad przetwarzania{provider}: {str(e)}"
DEFAULT_FEEDBACK == "Brak informacji zwrotnej."

\* A feedback text: m is a fixed message (or "" for the backend's own text t),
\* p the provider name and e the exception text formatted into m.
FixedFeedback(m, p, e) == [m |-> m, p |-> p, e |-> e, t |-> <<>>]
ModelFeedback(t)       == [m |-> "", p |-> "", e |-> "", t |-> t]

SubmissionResult(score, feedback, issue_type, abuse_score) ==
    [score |-> score, feedback |-> feedback, issue_type |-> issue_type,
     abuse_score |-> abuse_score]

normalize_unclamped(score, stage) == score
normalize_low_boundaries(score, stage) ==
    IF stage = "etap1"
    THEN IF score \in VALID_SCORES_ETAP1 THEN score
         ELSE IF score <= 0 THEN 0
         ELSE IF score < 2 THEN 1
         ELSE 3
    ELSE IF score \in VALID_SCORES_ETAP2 THEN score
         ELSE IF score <= 1 THEN 0
         ELSE IF score < 3 THEN 2
         ELSE IF score <= 5 THEN 5
         ELSE 6
normalize_omj_score(score, stage) ==
    IF stage = "etap1"
    THEN IF score \in VALID_SCORES_ETAP1 THEN score
         ELSE IF score <= 0 THEN 0
         ELSE IF score <= 2 THEN 1
         ELSE 3
    ELSE IF score \in VALID_SCORES_ETAP2 THEN score
         ELSE IF score <= 1 THEN 0
         ELSE IF score <= 3 THEN 2
         ELSE IF score <= 5 THEN 5
         ELSE 6

\* Python's int(x) on a decoded JSON value
Strip(t) ==
    LET keep == {i \in Indices(t) : t[i].k # "S"}
    IN  IF keep = {} THEN <<>>
        ELSE SubSeq(t, MinOf(keep), CHOOSE x \in keep : \A y \in keep : y <= x)
PyInt(v) ==
    CASE v.t \in {"int", "float"} -> [ok |-> TRUE, n |-> v.n, err |-> ""]
      [] v.t = "str" ->
            IF Len(Strip(v.s)) = 1 /\ Strip(v.s)[1].k = "num"
            THEN [ok |-> TRUE, n |-> Strip(v.s)[1].n, err |-> ""]
            ELSE [ok |-> FALSE, n |-> 0, err |-> "ValueError: invalid literal for int()"]
      [] OTHER -> [ok |-> FALSE, n |-> 0, err |-> "TypeError: int() argument must be a string or a number"]

\* truthiness of a decoded value, as used by `x or 0`
Falsy(v) == \/ v.t = "null"
            \/ v.t = "int" /\ v.n = 0
            \/ v.t = "str" /\ v.s = <<>>

IssueTypes == {"none", "wrong_task", "injection"}
\* IssueType(x), falling back to NONE on ValueError
IssueTypeOf(v) ==
    IF v.t = "str" /\ Len(v.s) = 1 /\ v.s[1].k = "W" /\ v.s[1].s \in IssueTypes
    THEN v.s[1].s ELSE "none"

AbuseScoreOf(v) ==
    LET raw == IF Falsy(v) THEN 0 ELSE IF PyInt(v).ok THEN PyInt(v).n ELSE 0
    IN  Max(0, Min(100, raw))

parse_ai_response(response_text, provider_name, stage) ==
    LET x == extract_json_from_text(response_text) IN
    IF ~x.found \/ DOMAIN x.d = {}
    THEN SubmissionResult(0, FixedFeedback(NO_JSON_FEEDBACK, provider_name, ""), "none", 0)
    ELSE
      LET sc    == PyInt(DictGet(x.d, "score", IntV(0)))
          fb    == DictGet(x.d, "feedback", StrV(<<Word(DEFAULT_FEEDBACK)>>))
          issue == IssueTypeOf(DictGet(x.d, "issue_type", StrV(<<Word("none")>>)))
          abuse == AbuseScoreOf(DictGet(x.d, "abuse_score", IntV(0)))
      IN  IF ~sc.ok
          THEN SubmissionResult(0, FixedFeedback(ERROR_FEEDBACK, provider_name, sc.err), "none", 0)
          ELSE IF issue = "wrong_task"
          THEN SubmissionResult(0, FixedFeedback(WRONG_TASK_FEEDBACK, "", ""), issue, abuse)
          ELSE IF issue = "injection"
          THEN SubmissionResult(0, FixedFeedback(INJECTION_FEEDBACK, "", ""), issue, abuse)
          ELSE IF fb.t # "str"
          THEN SubmissionResult(0, FixedFeedback(ERROR_FEEDBACK, provider_name,
                                   "ValidationError: feedback: Input should be a valid string"),
                                "none", 0)
          ELSE SubmissionResult(normalize_omj_score(sc.n, stage), ModelFeedback(fb.s), issue, abuse)

\* the issue type of the object decoded from the text, "" when none is decoded
DecodedIssueType(response_text) ==
    LET x == extract_json_from_text(response_text) IN
    IF ~x.found \/ DOMAIN x.d = {} THEN ""
    ELSE IssueTypeOf(DictGet(x.d, "issue_type", StrV(<<Word("none")>>)))

\* the text gives no usable result: nothing decoded, or a score int() rejects,
\* or a feedback SubmissionResult rejects
Unusable(response_text) ==
    LET x == extract_json_from_text(response_text) IN
    \/ ~x.found
    \/ DOMAIN x.d = {}
    \/ ~PyInt(DictGet(x.d, "score", IntV(0))).ok
    \/ /\ DecodedIssueType(response_text) = "none"
       /\ DictGet(x.d, "feedback", StrV(<<Word(DEFAULT_FEEDBACK)>>)).t # "str"

\* ------------------------------------------------------------------------
\* The bounded family of backend texts the parser is checked on
\* ------------------------------------------------------------------------
RawScores == (0 - MinusRawScore)..MaxRawScore
Stages == {"etap1", "etap2", "etap3"}
Str(content) == <<Tok("Q")>> \o content \o <<Tok("Q")>>

ScoreMembers ==
    {<<>>}
    \cup {<<Tok("Ks"), Num(n)>> : n \in RawScores}
    \cup {<<Tok("Ks"), Tok("S"), Flt(n)>> : n \in {-1, 4}}
    \cup {<<Tok("Ks")>> \o Str(<<Num(4)>>), <<Tok("Ks")>> \o Str(<<Word("w")>>),
          <<Tok("Ks"), Tok("null")>>}
FeedbackMembers ==
    {<<>>,
     <<Tok("Kf")>> \o Str(<<Word("w")>>),
     <<Tok("Kf")>> \o Str(<<Word("w"), Tok("{"), Word("w"), Tok("}")>>),
     <<Tok("Kf")>> \o Str(<<Tok("E"), Word("w"), Tok("E"), Tok("}")>>),
     <<Tok("Kf"), Num(1)>>}
IssueMembers ==
    {<<>>} \cup {<<Tok("Ki")>> \o Str(<<Word(w)>>) : w \in IssueTypes \cup {"INJECTION"}}
           \cup {<<Tok("Ki"), Tok("null")>>}
AbuseMembers ==
    {<<>>, <<Tok("Ka"), Num(-5)>>, <<Tok("Ka"), Num(50)>>, <<Tok("Ka"), Num(150)>>,
     <<Tok("Ka")>> \o Str(<<Word("w")>>), <<Tok("Ka"), Tok("null")>>}

RECURSIVE JoinMembers(_)
\* the members that are present, separated by commas
JoinMembers(ms) ==
    IF ms = <<>> THEN <<>>
    ELSE IF Head(ms) = <<>> THEN JoinMembers(Tail(ms))
    ELSE IF JoinMembers(Tail(ms)) = <<>> THEN Head(ms)
    ELSE Head(ms) \o <<Tok(","), Tok("S")>> \o JoinMembers(Tail(ms))
Object(ms) == <<Tok("{")>> \o JoinMembers(ms) \o <<Tok("}")>>

Objects ==
    {Object(<<sm, fm>>) : sm \in ScoreMembers, fm \in FeedbackMembers}
    \cup {Object(<<<<Tok("Ks"), Num(n)>>, <<Tok("Kf")>> \o Str(<<Word("w")>>), im, am>>) :
             n \in {4, 6}, im \in IssueMembers, am \in AbuseMembers}
    \cup {Object(<<sm, <<Tok("Kf")>> \o Str(<<Word("w")>>), <<Tok("Ki")>> \o Str(<<Word(w)>>)>>) :
             sm \in {<<Tok("Ks"), Tok("null")>>, <<Tok("Ks")>> \o Str(<<Word("w")>>)},
             w \in {"wrong_task", "injection"}}
    \cup {Object(<<<<Tok("Ks"), Num(4)>>, <<Tok("Kf"), Num(1)>>, <<Tok("Ki")>> \o Str(<<Word(w)>>)>>) :
             w \in {"wrong_task", "injection"}}

RECURSIVE Prose(_)
Prose(k) == IF k = 0 THEN <<>> ELSE <<Word("w"), Tok("S")>> \o Prose(k - 1)

Wrappings(obj) ==
    {obj}
    \cup {Prose(k) \o obj : k \in 1..MaxNoise}
    \cup {obj \o <<Tok("S")>> \o Prose(k) : k \in 1..MaxNoise}
    \cup {Prose(k) \o obj \o <<Tok("S")>> \o Prose(k) : k \in 1..MaxNoise}
    \cup {Prose(k) \o <<Tok("FJ"), Tok("S")>> \o obj \o <<Tok("S"), Tok("F")>> : k \in 0..MaxNoise}
    \cup {Prose(k) \o <<Tok("F"), Tok("S")>> \o obj \o <<Tok("S"), Tok("F")>> : k \in 0..MaxNoise}
    \cup {<<Tok("{"), Word("w"), Tok("S")>> \o obj \o <<Tok("}")>>,
          <<Tok("{"), Word("w"), Tok("}"), Tok("S")>> \o obj,
          <<Word("w"), Tok("Q"), Tok("S"), Tok("{"), Tok("S")>> \o obj}

\* the well-formed objects {"score": N, "feedback": F}
WellFormedObjects ==
    {Object(<<<<Tok("Ks"), Num(n)>>, fm>>) :
        n \in RawScores,
        fm \in {f \in FeedbackMembers : Len(f) > 1 /\ f[2].k = "Q"}}
\* prose, fences or both around the object, the prose free of braces and quotes
PlainWrappings(obj) ==
    {obj}
    \cup {Prose(k) \o obj : k \in 1..MaxNoise}
    \cup {obj \o <<Tok("S")>> \o Prose(k) : k \in 1..MaxNoise}
    \cup {Prose(k) \o obj \o <<Tok("S")>> \o Prose(k) : k \in 1..MaxNoise}
    \cup {Prose(k) \o <<Tok("FJ"), Tok("S")>> \o obj \o <<Tok("S"), Tok("F")>> : k \in 0..MaxNoise}
    \cup {Prose(k) \o <<Tok("F"), Tok("S")>> \o obj \o <<Tok("S"), Tok("F")>> : k \in 0..MaxNoise}

PlainTexts ==
    {<<>>, <<Tok("S")>>, <<Word("w")>>, <<Word("w"), Tok("{"), Word("w")>>,
     <<Tok("{"), Tok("Ks"), Word("w"), Tok("}")>>,
     <<Tok("FJ"), Tok("S"), Tok("{"), Word("w"), Tok("}"), Tok("S"), Tok("F")>>}

Texts == PlainTexts \cup UNION {Wrappings(obj) : obj \in Objects}

\* ------------------------------------------------------------------------
\* SpecParse: the parser applied once to a text of the family
\* ------------------------------------------------------------------------
NormIdle == nscore = 0 /\ nstage = "etap2" /\ nresult = <<>>
ParseIdle == ptext = <<>> /\ petap = "etap2" /\ presult = <<>>

Parse ==
    /\ presult = <<>>
    /\ presult' = <<parse_ai_response(ptext, "Gemini", petap)>>
    /\ UNCHANGED <<ptext, petap, admitVars, pipeVars, normVars, hubVars, laterVars>>

\* ------------------------------------------------------------------------
\* Admission gate: one submit_solution request
\* ------------------------------------------------------------------------
rate_limit_submissions_per_user_per_day == 30
rate_limit_submissions_global_per_day == 500
MAX_IMAGES == 10
MaxUploads == 2         \* images sent with a request

HTTP_OK == 200
HTTP_BAD_REQUEST == 400
HTTP_UNAUTHORIZED == 401
HTTP_TOO_MANY_REQUESTS == 429
HTTP_INTERNAL_SERVER_ERROR == 500

Around(c) == {0} \cup {n \in (c - CountSlack)..(c + CountSlack) : n >= 0}
Emails == {"a@x", "b@x", ""}

\* is_allowlisted = allowed_emails and user_email_lower in allowed_emails
IsAllowlisted(allowed_emails, user_email_lower) ==
    allowed_emails # {} /\ user_email_lower \in allowed_emails

\* the two ceiling tests of submit_solution, in the order the code makes them
AdmissionDecisionStrict(is_allowlisted, user_count, global_count) ==
    IF is_allowlisted THEN "allow"
    ELSE IF user_count > rate_limit_submissions_per_user_per_day THEN "deny_user"
    ELSE IF global_count > rate_limit_submissions_global_per_day THEN "deny_global"
    ELSE "allow"
AdmissionDecision(is_allowlisted, user_count, global_count) ==
    IF is_allowlisted THEN "allow"
    ELSE IF user_count >= rate_limit_submissions_per_user_per_day THEN "deny_user"
    ELSE IF global_count >= rate_limit_submissions_global_per_day THEN "deny_global"
    ELSE "allow"

Requests ==
    {r \in [authed : BOOLEAN, allowed_emails : {{}, {"a@x"}}, email : Emails,
            user_count : Around(rate_limit_submissions_per_user_per_day),
            global_count : Around(rate_limit_submissions_global_per_day),
            valid : BOOLEAN, images : (1..MaxUploads) \cup {MAX_IMAGES + 1},
            oversize : 0..MaxUploads,
            pdf_ok : BOOLEAN] :
        /\ r.user_count <= r.global_count
        /\ r.oversize <= r.images}

AdmitIdle ==
    /\ apc = "idle" /\ areq = <<>> /\ aresp = 0 /\ afiles = 0
    /\ arecords = 0 /\ ahub = 0 /\ atasks = 0 /\ achecked = FALSE

Decision(r) ==
    AdmissionDecision(IsAllowlisted(r.allowed_emails, r.email), r.user_count, r.global_count)

Respond(code) == aresp' = code /\ apc' = "done"

\* verify_auth / get_current_user_id fail: 401 before anything is read
AdmitUnauthorized ==
    /\ apc = "start" /\ ~areq.authed
    /\ Respond(HTTP_UNAUTHORIZED)
    /\ UNCHANGED <<areq, afiles, arecords, ahub, atasks, achecked, parseVars, pipeVars, normVars, hubVars, laterVars>>

AdmitDeny ==
    /\ apc = "start" /\ areq.authed
    /\ Decision(areq) # "allow"
    /\ Respond(HTTP_TOO_MANY_REQUESTS)
    /\ achecked' = TRUE
    /\ UNCHANGED <<areq, afiles, arecords, ahub, atasks, parseVars, pipeVars, normVars, hubVars, laterVars>>

AdmitAllow ==
    /\ apc = "start" /\ areq.authed
    /\ Decision(areq) = "allow"
    /\ apc' = "validate"
    /\ achecked' = TRUE
    /\ UNCHANGED <<areq, aresp, afiles, arecords, ahub, atasks, parseVars, pipeVars, normVars, hubVars, laterVars>>

\* path parameters, image count and content types
AdmitValidate ==
    /\ apc = "validate"
    /\ IF areq.valid /\ areq.images <= MAX_IMAGES
       THEN apc' = "save" /\ aresp' = aresp
       ELSE Respond(HTTP_BAD_REQUEST)
    /\ UNCHANGED <<areq, afiles, arecords, ahub, atasks, achecked, parseVars, pipeVars, normVars, hubVars, laterVars>>

\* positions of the request at which an uploaded image may be written
SavePositionsEarly == {"start", "save"}
SavePositions == {"save"}

\* one round of the image loop: the file is written, and unlinked again when
\* it exceeds the size limit (files written by earlier rounds stay)
AdmitSaveImage ==
    /\ apc \in SavePositions
    /\ afiles < areq.images
    /\ IF areq.oversize = afiles + 1
       THEN Respond(HTTP_BAD_REQUEST) /\ afiles' = afiles
       ELSE afiles' = afiles + 1 /\ apc' = apc /\ aresp' = aresp
    /\ UNCHANGED <<areq, arecords, ahub, atasks, achecked, parseVars, pipeVars, normVars, hubVars, laterVars>>

AdmitPdf ==
    /\ apc = "save" /\ afiles = areq.images
    /\ IF areq.pdf_ok THEN apc' = "create" /\ aresp' = aresp
       ELSE Respond(HTTP_INTERNAL_SERVER_ERROR)
    /\ UNCHANGED <<areq, afiles, arecords, ahub, atasks, achecked, parseVars, pipeVars, normVars, hubVars, laterVars>>

\* the PENDING row, the hub entry and the background task
AdmitCreate ==
    /\ apc = "create"
    /\ arecords' = arecords + 1
    /\ ahub' = ahub + 1
    /\ atasks' = atasks + 1
    /\ Respond(HTTP_OK)
    /\ UNCHANGED <<areq, afiles, achecked, parseVars, pipeVars, normVars, hubVars, laterVars>>

NextAdmit ==
    \/ AdmitUnauthorized \/ AdmitDeny \/ AdmitAllow \/ AdmitValidate
    \/ AdmitSaveImage \/ AdmitPdf \/ AdmitCreate

\* ------------------------------------------------------------------------
\* Messages and exception texts
\* ------------------------------------------------------------------------
MSG_INITIAL    == "Przesylanie..."
MSG_UPLOADING  == "Przesylam pliki..."
MSG_ANALYZING  == "Analizuje rozwiazanie..."
MSG_FINALIZING == "Finalizowanie..."

ERR_NO_TASK_PDF == "Nie znaleziono pliku z zadaniami"
ERR_TIMEOUT     == "Analiza trwa zbyt dlugo. Sprobuj ponownie za chwile."
ERR_EMPTY       == "Nie udalo sie odczytac rozwiazania. Sprobuj ponownie."
ERR_OVERLOADED  == "System jest obecnie przeciazony. Sprobuj ponownie za kilka minut."
ERR_TECHNICAL   == "Przepraszamy, wystapil problem techniczny. Sprobuj ponownie pozniej."
ERR_REJECTED    == "Nie udalo sie przetworzyc zdjecia. Upewnij sie, ze zdjecie zawiera tylko rozwiazanie zadania."
ERR_UNKNOWN     == "Przepraszamy, cos poszlo nie tak. Sprobuj ponownie za chwile."
ERR_STALE       == "Przekroczono limit czasu przetwarzania. Sprobuj ponownie."
ERR_PROVIDER_CONFIG == "GEMINI_API_KEY is required when AI_PROVIDER=gemini. Set it in your .env file."

RAW_IMPORT_ERROR == "google-genai package not installed. Install with: pip install google-genai"
RAW_DB_ERROR     == "(OperationalError) server closed the connection unexpectedly"
RAW_SEND_ERROR   == "Cannot call send once a close message has been sent."
RAW_TYPE_ERROR   == "SubmissionRepository.update_result() got an unexpected keyword argument"

\* an exception: its class as the handler's except clauses see it, and str(e)
NoExc == [cls |-> "", msg |-> ""]
AIProviderError(msg) == [cls |-> "AIProviderError", msg |-> msg]
OtherError(msg)      == [cls |-> "Exception", msg |-> msg]

\* The words of a backend error text that analyze_solution_stream looks for.
BackendErrors ==
    {{"quota"}, {"invalid", "key"}, {"invalid"}, {"safety"}, {"blocked"}, {},
     {"quota", "blocked"}}
\* the except Exception clause of analyze_solution_stream
MapBackendError(words) ==
    IF "quota" \in words THEN ERR_OVERLOADED
    ELSE IF "invalid" \in words /\ "key" \in words THEN ERR_TECHNICAL
    ELSE IF "safety" \in words \/ "blocked" \in words THEN ERR_REJECTED
    ELSE ERR_UNKNOWN

\* ------------------------------------------------------------------------
\* The persisted submission row and its repository
\* ------------------------------------------------------------------------
Terminal == {"completed", "failed"}

\* SubmissionRepository.create(..., status=PENDING) as submit_solution calls it.
\* The row exists from then on: no action of the model deletes it, so the
\* repository's writes always find it.
NewSubmission ==
    [status |-> "pending", score |-> <<>>, feedback |-> <<>>, error_message |-> <<>>,
     issue_type |-> "none", abuse_score |-> 0, scoring_meta |-> <<>>]

\* update_status; error_message is <<>> for None
update_status_drop_message(row, status, error_message) ==
    [row EXCEPT !.status = status]
update_status(row, status, error_message) ==
    [row EXCEPT !.status = status,
                !.error_message = IF error_message # <<>> THEN error_message ELSE @]

\* update_result; scoring_meta is <<>> for None
update_result(row, score, feedback, status, scoring_meta) ==
    [row EXCEPT !.status = status,
                !.score = <<score>>,
                !.feedback = <<feedback>>,
                !.scoring_meta = IF scoring_meta # <<>> THEN scoring_meta ELSE @]

\* the parameters update_result declares, and the keywords the task passes
update_result_params_with_classification ==
    {"submission_id", "score", "feedback", "status", "issue_type", "abuse_score",
     "scoring_meta"}
update_result_params ==
    {"submission_id", "score", "feedback", "status", "scoring_meta"}
update_result_kwargs ==
    {"submission_id", "score", "feedback", "status", "issue_type", "abuse_score",
     "scoring_meta"}
\* Python binds a call only when every keyword names a parameter
CallBinds(kwargs, params) == kwargs \subseteq params

\* _mark_stale_submissions_failed on the row
mark_stale_submissions_failed(row, past_timeout) ==
    IF row.status \in {"pending", "processing"} /\ past_timeout
    THEN [row EXCEPT !.status = "failed", !.error_message = <<ERR_STALE>>]
    ELSE row

\* ------------------------------------------------------------------------
\* The hub entry of the submission (ProgressManager._submissions[id])
\* ------------------------------------------------------------------------
NoEntry ==
    [exists |-> FALSE, websocket |-> 0, is_connected |-> FALSE, current_status |-> "",
     thinking_buffer |-> <<>>, completed |-> FALSE, score |-> <<>>, feedback |-> <<>>,
     error |-> <<>>]
SubmissionProgress ==
    [exists |-> TRUE, websocket |-> 0, is_connected |-> FALSE,
     current_status |-> MSG_INITIAL, thinking_buffer |-> <<>>, completed |-> FALSE,
     score |-> <<>>, feedback |-> <<>>, error |-> <<>>]

create_submission_overwrite(h) == SubmissionProgress
create_submission(h) == IF h.exists THEN h ELSE SubmissionProgress
register_keep_first(h, w) ==
    IF create_submission(h).is_connected THEN create_submission(h)
    ELSE [create_submission(h) EXCEPT !.websocket = w, !.is_connected = TRUE]
unregister_reset(h) == IF h.exists THEN SubmissionProgress ELSE h
register(h, w) == [create_submission(h) EXCEPT !.websocket = w, !.is_connected = TRUE]
unregister(h) == IF h.exists THEN [h EXCEPT !.websocket = 0, !.is_connected = FALSE] ELSE h
send_status_unstored(h, message) == create_submission(h)
send_status(h, message) == [create_submission(h) EXCEPT !.current_status = message]
send_completed(h, score, feedback) ==
    IF h.exists
    THEN [h EXCEPT !.completed = TRUE, !.score = <<score>>, !.feedback = <<feedback>>]
    ELSE h
send_error(h, error) ==
    IF h.exists THEN [h EXCEPT !.completed = TRUE, !.error = <<error>>] ELSE h
\* the websocket _broadcast sends to, 0 when there is none
BroadcastTarget(h) == IF h.exists /\ h.is_connected /\ h.websocket # 0 THEN h.websocket ELSE 0
CLEANUP_TTL_SECONDS == 600
\* cleanup_stale's removal test
IsSweptConnected(h, too_old) == h.exists /\ (h.completed \/ too_old)
IsSwept(h, too_old) == h.exists /\ ((h.completed /\ ~h.is_connected) \/ too_old)

\* extract_latest_heading on a buffer of chunks: a chunk is "text" or a heading
Headings == {"H1", "H2"}
\* a marker with nothing but blanks between its asterisks: it matches
\* HEADING_PATTERN and strip() leaves the empty string
BlankHeading == "blank"
RECURSIVE extract_latest_heading(_)
extract_latest_heading(buf) ==
    IF buf = <<>> THEN ""
    ELSE IF buf[Len(buf)] = BlankHeading THEN ""
    ELSE IF buf[Len(buf)] \in Headings THEN buf[Len(buf)]
    ELSE extract_latest_heading(SubSeq(buf, 1, Len(buf) - 1))
\* translate_to_polish: the translation, or the text itself on any failure
translate_to_polish(text, ok) == IF ok THEN "pl:" \o text ELSE text

\* _send_safe: "return" whether or not websocket.send_json raised
send_safe_unguarded(sent) == IF sent THEN "return" ELSE "raise"
send_safe(sent) == "return"

\* ------------------------------------------------------------------------
\* The messages of the hub and what register replays
\* ------------------------------------------------------------------------
StatusMessage(message) ==
    [type |-> "status", message |-> message, score |-> 0, feedback |-> "", error |-> ""]
CompletedMessage(score, feedback) ==
    [type |-> "completed", message |-> "", score |-> score, feedback |-> feedback, error |-> ""]
ErrorMessage(error) ==
    [type |-> "error", message |-> "", score |-> 0, feedback |-> "", error |-> error]

\* a register that queues the payload of a completed entry twice
ReplayMessagesRepeating(h) ==
    (IF h.current_status # "" THEN <<StatusMessage(h.current_status)>> ELSE <<>>)
    \o (IF ~h.completed THEN <<>>
        ELSE IF h.error # <<>> /\ h.error[1] # ""
        THEN <<ErrorMessage(h.error[1]), ErrorMessage(h.error[1])>>
        ELSE <<CompletedMessage(IF h.score = <<>> THEN 0 ELSE h.score[1],
                                IF h.feedback = <<>> THEN "" ELSE h.feedback[1]),
               CompletedMessage(IF h.score = <<>> THEN 0 ELSE h.score[1],
                                IF h.feedback = <<>> THEN "" ELSE h.feedback[1])>>)
\* register's messages_to_send for the entry it has just registered on
ReplayMessages(h) ==
    (IF h.current_status # "" THEN <<StatusMessage(h.current_status)>> ELSE <<>>)
    \o (IF ~h.completed THEN <<>>
        ELSE IF h.error # <<>> /\ h.error[1] # "" THEN <<ErrorMessage(h.error[1])>>
        ELSE <<CompletedMessage(IF h.score = <<>> THEN 0 ELSE h.score[1],
                                IF h.feedback = <<>> THEN "" ELSE h.feedback[1])>>)

\* send_thinking under its first lock: the chunk joins the buffer of an
\* existing entry
AppendChunk(h, chunk) ==
    IF h.exists THEN [h EXCEPT !.thinking_buffer = Append(@, chunk)] ELSE h
\* a send_thinking that broadcasts the latest heading after every chunk
NewHeadingEveryChunk(h, chunk) ==
    IF h.exists THEN extract_latest_heading(AppendChunk(h, chunk).thinking_buffer) ELSE ""
\* the heading send_thinking goes on to translate, "" when it broadcasts nothing
NewHeading(h, chunk) ==
    IF h.exists /\ extract_latest_heading(AppendChunk(h, chunk).thinking_buffer) # ""
       /\ extract_latest_heading(AppendChunk(h, chunk).thinking_buffer)
              # extract_latest_heading(h.thinking_buffer)
    THEN extract_latest_heading(AppendChunk(h, chunk).thinking_buffer) ELSE ""
\* send_thinking under its second lock
StoreHeading(h, translated) ==
    IF h.exists THEN [h EXCEPT !.current_status = translated] ELSE h

\* on_thinking awaits send_thinking: while a heading is being translated the
\* task makes no other hub call
ThinkingNotAwaited(head) == FALSE
ThinkingAwaited(head) == head # ""

HubSockets == 1..MaxHubSockets
Chunks == {"text"} \cup Headings
NoSnap == [inflight |-> FALSE, finished |-> FALSE, last |-> "", lost |-> FALSE]

HubStart ==
    /\ table = NoEntry
    /\ aged = FALSE
    /\ opos = "new"
    /\ ohead = ""
    /\ oseq = 0
    /\ ochunks = 0
    /\ ncalls = 0
    /\ lastPushed = ""
    /\ lostSince = FALSE
    /\ terminal = <<>>
    /\ inbox = [w \in HubSockets |-> <<>>]
    /\ wseq = [w \in HubSockets |-> 0]
    /\ wpc = [w \in HubSockets |-> "idle"]
    /\ wqueue = [w \in HubSockets |-> <<>>]
    /\ wprog = [w \in HubSockets |-> ""]
    /\ wsnap = [w \in HubSockets |-> NoSnap]
\* the values the group keeps in the specifications that do not use it
HubIdle ==
    /\ table = 0
    /\ aged = 0
    /\ opos = 0
    /\ ohead = 0
    /\ oseq = 0
    /\ ochunks = 0
    /\ ncalls = 0
    /\ lastPushed = 0
    /\ lostSince = 0
    /\ terminal = 0
    /\ inbox = 0
    /\ wseq = 0
    /\ wpc = 0
    /\ wqueue = 0
    /\ wprog = 0
    /\ wsnap = 0


\* ------------------------------------------------------------------------
\* cleanup_stale on a table of entries
\* ------------------------------------------------------------------------
SweepIds == 1..MaxSweepEntries
AbsentEntry == [exists |-> FALSE, completed |-> FALSE, is_connected |-> FALSE, created_at |-> 0]
SweepEntries ==
    {AbsentEntry}
    \cup [exists : {TRUE}, completed : BOOLEAN, is_connected : BOOLEAN,
          created_at : 0..(2 * AgeSlack)]
\* the ids cleanup_stale collects in to_remove
ToRemove(entries, now) ==
    {i \in DOMAIN entries :
        IsSwept(entries[i], now - entries[i].created_at > CLEANUP_TTL_SECONDS)}
cleanup_stale(entries, now) ==
    [table |-> [i \in DOMAIN entries |->
                   IF i \in ToRemove(entries, now) THEN AbsentEntry ELSE entries[i]],
     count |-> Cardinality(ToRemove(entries, now))]

SweepIdle ==
    /\ sentries = 0
    /\ snow = 0
    /\ sswept = 0


\* ------------------------------------------------------------------------
\* The websocket endpoint: who connects to which submission
\* ------------------------------------------------------------------------
WS_CLOSE_NOT_FOUND == 4004
WS_CLOSE_NOT_AUTHORIZED == 4003
ANONYMOUS == "anonymous"
UserIds == {"u1", "u2"}
\* what the session cookie of the connection holds
Sessions == {"no_cookie", "bad_signature", "no_user", "no_google_sub"} \cup UserIds
NoRow == [exists |-> FALSE, user_id |-> ""]
Rows == {NoRow} \cup [exists : {TRUE}, user_id : UserIds \cup {ANONYMOUS}]
ChannelEntries ==
    {NoEntry, SubmissionProgress,
     [SubmissionProgress EXCEPT !.completed = TRUE, !.score = <<5>>, !.feedback = <<"fb">>]}
ChannelRequests ==
    [auth_disabled : BOOLEAN, session : Sessions, submission : Rows, entry : ChannelEntries]
NoChannelRequest ==
    [auth_disabled |-> FALSE, session |-> "no_cookie", submission |-> NoRow, entry |-> NoEntry]

\* user_id after the session cookie was decoded; "" stands for None
session_user_id(auth_disabled, session) ==
    IF auth_disabled THEN ANONYMOUS
    ELSE IF session \in UserIds THEN session
    ELSE ""
\* the ownership test that is skipped when user_id is set
owner_check_any_user(auth_disabled, user_id, submission) ==
    auth_disabled \/ user_id # ""
\* not (not auth_disabled and (not user_id or user_id != submission.user_id))
owner_check(auth_disabled, user_id, submission) ==
    auth_disabled \/ (user_id # "" /\ user_id = submission.user_id)

ChanIdle ==
    /\ cpc = 0
    /\ creq = 0
    /\ cuser = 0
    /\ ccode = 0
    /\ chub = 0
    /\ csent = 0


\* ------------------------------------------------------------------------
\* The remote-file cache: _check_cached_file and _upload_file on one path
\* ------------------------------------------------------------------------
CACHE_TTL_SECONDS == 86400
MaxCallers == 3         \* calls of _upload_file made for the path
MaxContents == 2        \* contents the local file may take
Callers == 1..MaxCallers
Contents == 1..MaxContents
\* the instants time.time() takes: the TTL and AgeSlack seconds around it
ClockTimes == <<0, CACHE_TTL_SECONDS - AgeSlack, CACHE_TTL_SECONDS, CACHE_TTL_SECONDS + AgeSlack>>
CachedFile(gemini_name, file_hash, cached_at) ==
    [gemini_name |-> gemini_name, file_hash |-> file_hash, cached_at |-> cached_at]
\* a call that has not begun; held is the CachedFile read before the probe,
\* sent the content the upload was issued for, stored the entry the call wrote
IdleCall ==
    [pc |-> "idle", use_cache |-> TRUE, held |-> <<>>, sent |-> 0, ref |-> 0,
     seen |-> <<>>, seen_content |-> 0, seen_at |-> 0, probe |-> "none",
     uploads |-> 0, evicted |-> FALSE, stored |-> <<>>]
\* time.time() - cached.cached_at > _CACHE_TTL_SECONDS
ttl_expired(now, cached_at) == now - cached_at > CACHE_TTL_SECONDS
\* _check_cached_file up to its await: "miss" (no entry), "evict" (too old or
\* content changed; the entry is deleted) or "probe" (client.files.get follows)
check_cached_file(cache, now, current_hash) ==
    IF cache = <<>> THEN "miss"
    ELSE IF ttl_expired(now, cache[1].cached_at) THEN "evict"
    ELSE IF current_hash # cache[1].file_hash THEN "evict"
    ELSE "probe"

CacheStart ==
    /\ fcache = <<>>
    /\ fcontent = 1
    /\ fclock = 1
    /\ fuploads = 0
    /\ fmutated = FALSE
    /\ fcall = [c \in Callers |-> IdleCall]
\* the values the group keeps in the specifications that do not use it
CacheIdle ==
    /\ fcache = 0
    /\ fcontent = 0
    /\ fclock = 0
    /\ fuploads = 0
    /\ fmutated = 0
    /\ fcall = 0


\* ------------------------------------------------------------------------
\* One inference call: parallel uploads, the call, the release of attachments
\* ------------------------------------------------------------------------
MaxImages == 2          \* student images attached to the call
\* attachment 1 is the task PDF (use_cache=True), the others are the images
\* (use_cache=False); an upload of attachment f returns the name f
Attachments == 1..(1 + MaxImages)
UseCache(f) == f = 1
SeqRange(seq) == {seq[i] : i \in DOMAIN seq}
\* cached_names = {c.gemini_name for c in _file_cache.values()} if skip_cached else set()
cached_names(cache, skip_cached) == IF skip_cached THEN cache ELSE {}
\* the loop of _cleanup_files that ends at the first delete that raises
after_delete_stop(index, ok, count) == IF ok THEN index + 1 ELSE count + 1
\* the loop of _cleanup_files goes on to the next file whether the delete
\* raised or not
after_delete(index, ok, count) == index + 1

InferIdle ==
    /\ ipc = 0
    /\ ifiles = 0
    /\ icache = 0
    /\ iuploaded = 0
    /\ ioutcome = 0
    /\ inames = 0
    /\ inext = 0
    /\ ideletes = 0
    /\ idelfailed = 0
    /\ ihad = 0


\* ------------------------------------------------------------------------
\* The Retry-After value of a denied submit
\* ------------------------------------------------------------------------
WINDOW_HOURS == 24
TicksPerSecond == 2     \* clock readings per second
MaxRetrySlack == 4      \* seconds the call is made before or after the reset time
TruncDiv(a, b) == IF a >= 0 THEN a \div b ELSE -((-a) \div b)
WindowTicks(window_hours) == window_hours * 60 * 60 * TicksPerSecond
\* the value returned without the lower limit
retry_after_unlimited(oldest_timestamp, window_hours, now) ==
    TruncDiv((IF oldest_timestamp # <<>> THEN oldest_timestamp[1] ELSE now)
                 + WindowTicks(window_hours) - now, TicksPerSecond)
\* max(1, int((reset_time - now).total_seconds()))
calculate_retry_after(oldest_timestamp, window_hours, now) ==
    Max(1, TruncDiv((IF oldest_timestamp # <<>> THEN oldest_timestamp[1] ELSE now)
                        + WindowTicks(window_hours) - now, TicksPerSecond))

RetryIdle ==
    /\ roldest = 0
    /\ rnow = 0
    /\ rresult = 0


\* ------------------------------------------------------------------------
\* The stream bridge: a worker thread fills a queue the event loop polls
\* ------------------------------------------------------------------------
MaxStreamChunks == 3    \* chunks a response stream may hold
\* the exit test that does not look at the queue
exit_test_done_only(done_is_set, queue_empty) == done_is_set
\* stream_done_event.is_set() and chunk_queue.empty()
exit_test(done_is_set, queue_empty) == done_is_set /\ queue_empty

StreamIdle ==
    /\ qitems = 0
    /\ qtotal = 0
    /\ qput = 0
    /\ qdone = 0
    /\ qerror = 0
    /\ qworker = 0
    /\ qconsumer = 0
    /\ qtaken = 0
RaceIdle ==
    /\ gpc = 0
    /\ gucount = 0
    /\ ggcount = 0
    /\ gseen = 0
DeadlineIdle ==
    /\ tclock = 0
    /\ tstream = 0
    /\ tworker = 0
    /\ tqueue = 0
    /\ tdone = 0
    /\ terror = 0
    /\ tloop = 0
    /\ twake = 0
    /\ tout = 0
    /\ tlate = 0
ReleaseIdle ==
    /\ frelease = 0
LaterIdle ==
    /\ SweepIdle
    /\ ChanIdle
    /\ CacheIdle
    /\ InferIdle
    /\ RetryIdle
    /\ StreamIdle
    /\ RaceIdle
    /\ DeadlineIdle
    /\ ReleaseIdle

\* ------------------------------------------------------------------------
\* Spec: one accepted submission, its background task, its subscribers
\* ------------------------------------------------------------------------
Sockets == 1..MaxSockets
PipeStages == {"etap1", "etap2"}
NoFlight == [ws |-> 0, resume |-> "", scope |-> ""]
NoCall == [kind |-> "", score |-> <<>>, feedback |-> <<>>, error |-> <<>>]
NoFault == [fault |-> NoExc, called |-> FALSE, send_failed |-> FALSE, marked |-> FALSE]
SCORING_META == <<"thinking, api_time, total_time">>

\* answers the backend may give: a graded solution, prose without JSON, and
\* a solution of the wrong task with an off-scale score
AnswerTexts ==
    {Object(<<<<Tok("Ks"), Num(5)>>, <<Tok("Kf")>> \o Str(<<Word("w")>>)>>),
     <<Word("w")>>,
     Object(<<<<Tok("Ks"), Num(4)>>, <<Tok("Kf")>> \o Str(<<Word("w")>>),
              <<Tok("Ki")>> \o Str(<<Word("wrong_task")>>), <<Tok("Ka"), Num(50)>>>>)}

PipeIdle ==
    /\ pc = 0
    /\ sub = 0
    /\ hub = 0
    /\ conn = 0
    /\ inflight = 0
    /\ exc = 0
    /\ result = 0
    /\ heading = 0
    /\ chunks = 0
    /\ env = 0
    /\ etap = 0
    /\ stale = 0
    /\ hubAged = 0
    /\ calls = 0


\* submit_solution has created the PENDING row and the hub entry and has
\* started the task
Init ==
    /\ pc = "start"
    /\ sub = NewSubmission
    /\ hub = create_submission(NoEntry)
    /\ conn = [w \in Sockets |-> "idle"]
    /\ inflight = NoFlight
    /\ exc = NoExc
    /\ result = <<>>
    /\ heading = ""
    /\ chunks = 0
    /\ env = NoFault
    /\ etap \in PipeStages
    /\ stale = FALSE
    /\ hubAged = FALSE
    /\ calls = NoCall
    /\ ParseIdle
    /\ AdmitIdle
    /\ NormIdle
    /\ HubIdle
    /\ LaterIdle

\* the except clause of process_submission_background that catches e
HandlerCatch(e) == IF e.cls = "AIProviderError" THEN "except_ai" ELSE "except_other"

\* a step outside the hub raises e inside the task's try block
Raise(e) ==
    /\ exc' = e
    /\ env' = [env EXCEPT !.fault = e]
    /\ pc' = HandlerCatch(e)

\* a fresh entry has a fresh created_at
AgeAfter(h) == IF ~hub.exists /\ h.exists THEN FALSE ELSE hubAged

\* a hub call of the task: the entry update and _broadcast's capture of the
\* websocket are one step, the send itself is awaited
Push(h, next, scope) ==
    /\ hub' = h
    /\ hubAged' = AgeAfter(h)
    /\ IF BroadcastTarget(h) # 0
       THEN /\ inflight' = [ws |-> BroadcastTarget(h), resume |-> next, scope |-> scope]
            /\ pc' = "deliver"
       ELSE /\ inflight' = NoFlight
            /\ pc' = next

Listening == {"replay", "open", "linger"}

\* The task and the request handlers share one event loop: a handler runs
\* only while the task is suspended in an await (the upload, the stream, the
\* translation, a websocket send, the provider's file cleanup) or has ended.
Suspended ==
    pc \in {"upload", "stream", "translate", "deliver", "finalize", "except_ai",
            "done", "crashed"}

\* websocket.send_json succeeded
DeliverOk ==
    /\ pc = "deliver"
    /\ conn[inflight.ws] \in Listening
    /\ send_safe(TRUE) = "return"
    /\ pc' = inflight.resume
    /\ inflight' = NoFlight
    /\ UNCHANGED <<sub, hub, conn, exc, result, heading, chunks, env, etap, stale,
                   hubAged, calls>>
    /\ UNCHANGED <<parseVars, admitVars, normVars, hubVars, laterVars>>

\* websocket.send_json raised: the socket is closed or the network failed
DeliverFail ==
    /\ pc = "deliver"
    /\ inflight' = NoFlight
    /\ env' = [env EXCEPT !.send_failed = TRUE]
    /\ IF send_safe(FALSE) = "return"
       THEN /\ pc' = inflight.resume
            /\ exc' = exc
       ELSE /\ exc' = IF inflight.scope = "provider"
                      THEN AIProviderError(MapBackendError({}))
                      ELSE OtherError(RAW_SEND_ERROR)
            /\ pc' = IF inflight.scope = "except" THEN "crashed" ELSE HandlerCatch(exc')
    /\ UNCHANGED <<sub, hub, conn, result, heading, chunks, etap, stale, hubAged, calls>>
    /\ UNCHANGED <<parseVars, admitVars, normVars, hubVars, laterVars>>

\* update_status(PROCESSING)
TaskStart ==
    /\ pc = "start"
    /\ \E ok \in BOOLEAN :
          IF ok
          THEN /\ sub' = update_status(sub, "processing", <<>>)
               /\ pc' = "push_uploading"
               /\ UNCHANGED <<exc, env>>
          ELSE /\ Raise(OtherError(RAW_DB_ERROR))
               /\ UNCHANGED sub
    /\ UNCHANGED <<hub, conn, inflight, result, heading, chunks, etap, stale, hubAged, calls>>
    /\ UNCHANGED <<parseVars, admitVars, normVars, hubVars, laterVars>>

PushUploading ==
    /\ pc = "push_uploading"
    /\ Push(send_status(hub, MSG_UPLOADING), "check_pdf", "try")
    /\ UNCHANGED <<sub, conn, exc, result, heading, chunks, env, etap, stale, calls>>
    /\ UNCHANGED <<parseVars, admitVars, normVars, hubVars, laterVars>>

CheckPdf ==
    /\ pc = "check_pdf"
    /\ \E found \in BOOLEAN :
          IF found
          THEN pc' = "create_provider" /\ UNCHANGED <<exc, env>>
          ELSE Raise(AIProviderError(ERR_NO_TASK_PDF))
    /\ UNCHANGED <<sub, hub, conn, inflight, result, heading, chunks, etap, stale,
                   hubAged, calls>>
    /\ UNCHANGED <<parseVars, admitVars, normVars, hubVars, laterVars>>

CreateProvider ==
    /\ pc = "create_provider"
    /\ \E o \in {"ok", "config", "import"} :
          CASE o = "ok" -> pc' = "upload" /\ UNCHANGED <<exc, env>>
            [] o = "config" -> Raise(AIProviderError(ERR_PROVIDER_CONFIG))
            [] o = "import" -> Raise(OtherError(RAW_IMPORT_ERROR))
    /\ UNCHANGED <<sub, hub, conn, inflight, result, heading, chunks, etap, stale,
                   hubAged, calls>>
    /\ UNCHANGED <<parseVars, admitVars, normVars, hubVars, laterVars>>

\* analyze_solution_stream raises its mapping of a backend error
ProviderRaise(msg) ==
    /\ exc' = AIProviderError(msg)
    /\ env' = [env EXCEPT !.fault = AIProviderError(msg), !.called = TRUE]
    /\ pc' = "except_ai"

\* analyze_solution_stream: the file upload
Upload ==
    /\ pc = "upload"
    /\ \/ /\ pc' = "push_analyzing"
          /\ env' = [env EXCEPT !.called = TRUE]
          /\ UNCHANGED exc
       \/ \E words \in BackendErrors : ProviderRaise(MapBackendError(words))
    /\ UNCHANGED <<sub, hub, conn, inflight, result, heading, chunks, etap, stale,
                   hubAged, calls>>
    /\ UNCHANGED <<parseVars, admitVars, normVars, hubVars, laterVars>>

\* on_upload_complete
PushAnalyzing ==
    /\ pc = "push_analyzing"
    /\ Push(send_status(hub, MSG_ANALYZING), "stream", "provider")
    /\ UNCHANGED <<sub, conn, exc, result, heading, chunks, env, etap, stale, calls>>
    /\ UNCHANGED <<parseVars, admitVars, normVars, hubVars, laterVars>>

\* on_thinking -> send_thinking, up to the await of the translation
ThinkingChunk ==
    /\ pc = "stream"
    /\ chunks < MaxChunks
    /\ chunks' = chunks + 1
    /\ \E chunk \in {"text"} \cup Headings :
          IF hub.exists
          THEN LET old_heading == extract_latest_heading(hub.thinking_buffer)
                   buffer == Append(hub.thinking_buffer, chunk)
                   new_heading == extract_latest_heading(buffer)
               IN  /\ hub' = [hub EXCEPT !.thinking_buffer = buffer]
                   /\ IF new_heading # "" /\ new_heading # old_heading
                      THEN heading' = new_heading /\ pc' = "translate"
                      ELSE heading' = heading /\ pc' = "stream"
          ELSE UNCHANGED <<hub, heading, pc>>
    /\ UNCHANGED <<sub, conn, inflight, exc, result, env, etap, stale, hubAged, calls>>
    /\ UNCHANGED <<parseVars, admitVars, normVars, hubVars, laterVars>>

\* send_thinking after translate_to_polish returned
Translate ==
    /\ pc = "translate"
    /\ \E ok \in BOOLEAN :
          LET translated_heading == translate_to_polish(heading, ok)
          IN  Push(IF hub.exists
                   THEN [hub EXCEPT !.current_status = translated_heading]
                   ELSE hub,
                   "stream", "provider")
    /\ heading' = ""
    /\ UNCHANGED <<sub, conn, exc, result, chunks, env, etap, stale, calls>>
    /\ UNCHANGED <<parseVars, admitVars, normVars, hubVars, laterVars>>

\* the stream ended with a non-empty answer text
StreamText ==
    /\ pc = "stream"
    /\ \E feedback_text \in AnswerTexts :
          result' = <<parse_ai_response(feedback_text, "Gemini", etap)>>
    /\ pc' = "finalize"
    /\ UNCHANGED <<sub, hub, conn, inflight, exc, heading, chunks, env, etap, stale,
                   hubAged, calls>>
    /\ UNCHANGED <<parseVars, admitVars, normVars, hubVars, laterVars>>

\* the stream timed out, ended without answer text, or the backend failed
StreamFail ==
    /\ pc = "stream"
    /\ \/ ProviderRaise(ERR_TIMEOUT)
       \/ ProviderRaise(ERR_EMPTY)
       \/ \E words \in BackendErrors : ProviderRaise(MapBackendError(words))
    /\ UNCHANGED <<sub, hub, conn, inflight, result, heading, chunks, etap, stale,
                   hubAged, calls>>
    /\ UNCHANGED <<parseVars, admitVars, normVars, hubVars, laterVars>>

Finalize ==
    /\ pc = "finalize"
    /\ Push(send_status(hub, MSG_FINALIZING), "persist", "try")
    /\ UNCHANGED <<sub, conn, exc, result, heading, chunks, env, etap, stale, calls>>
    /\ UNCHANGED <<parseVars, admitVars, normVars, hubVars, laterVars>>

\* submission_repo.update_result(submission_id=..., ..., scoring_meta=...),
\* then send_completed up to its send: no await lies between the two
Persist ==
    /\ pc = "persist"
    /\ \E ok \in BOOLEAN :
          IF CallBinds(update_result_kwargs, update_result_params) /\ ok
          THEN /\ sub' = update_result(sub, result[1].score, result[1].feedback,
                                       "completed", SCORING_META)
               /\ Push(send_completed(hub, result[1].score, result[1].feedback),
                       "done", "try")
               /\ calls' = [NoCall EXCEPT !.kind = "complete",
                                          !.score = <<result[1].score>>,
                                          !.feedback = <<result[1].feedback>>]
               /\ UNCHANGED <<exc, env>>
          ELSE /\ Raise(IF CallBinds(update_result_kwargs, update_result_params)
                        THEN OtherError(RAW_DB_ERROR)
                        ELSE OtherError(RAW_TYPE_ERROR))
               /\ UNCHANGED <<sub, hub, hubAged, inflight, calls>>
    /\ UNCHANGED <<conn, result, heading, chunks, etap, stale>>
    /\ UNCHANGED <<parseVars, admitVars, normVars, hubVars, laterVars>>

\* except AIProviderError: update_status(FAILED, error_message=str(e))
ExceptAI ==
    /\ pc = "except_ai"
    /\ \E ok \in BOOLEAN :
          IF ok
          THEN /\ sub' = update_status(sub, "failed", <<exc.msg>>)
               /\ pc' = "fail_ai"
               /\ UNCHANGED exc
          ELSE /\ exc' = OtherError(RAW_DB_ERROR)
               /\ pc' = "crashed"
               /\ UNCHANGED sub
    /\ UNCHANGED <<hub, conn, inflight, result, heading, chunks, env, etap, stale,
                   hubAged, calls>>
    /\ UNCHANGED <<parseVars, admitVars, normVars, hubVars, laterVars>>

\* except AIProviderError: send_error(error_msg)
FailAI ==
    /\ pc = "fail_ai"
    /\ Push(send_error(hub, exc.msg), "done", "except")
    /\ calls' = [NoCall EXCEPT !.kind = "fail", !.error = <<exc.msg>>]
    /\ UNCHANGED <<sub, conn, exc, result, heading, chunks, env, etap, stale>>
    /\ UNCHANGED <<parseVars, admitVars, normVars, hubVars, laterVars>>

\* except Exception: update_status(FAILED, error_message=str(e))
ExceptOther ==
    /\ pc = "except_other"
    /\ \E ok \in BOOLEAN :
          IF ok
          THEN /\ sub' = update_status(sub, "failed", <<exc.msg>>)
               /\ pc' = "fail_other"
               /\ UNCHANGED exc
          ELSE /\ exc' = OtherError(RAW_DB_ERROR)
               /\ pc' = "crashed"
               /\ UNCHANGED sub
    /\ UNCHANGED <<hub, conn, inflight, result, heading, chunks, env, etap, stale,
                   hubAged, calls>>
    /\ UNCHANGED <<parseVars, admitVars, normVars, hubVars, laterVars>>

\* except Exception: send_error(the generic message)
FailOther ==
    /\ pc = "fail_other"
    /\ Push(send_error(hub, ERR_UNKNOWN), "done", "except")
    /\ calls' = [NoCall EXCEPT !.kind = "fail", !.error = <<ERR_UNKNOWN>>]
    /\ UNCHANGED <<sub, conn, exc, result, heading, chunks, env, etap, stale>>
    /\ UNCHANGED <<parseVars, admitVars, normVars, hubVars, laterVars>>

\* the row's age passes SUBMISSION_TIMEOUT_SECONDS
PassTimeout ==
    /\ Suspended
    /\ ~stale
    /\ stale' = TRUE
    /\ UNCHANGED <<pc, sub, hub, conn, inflight, exc, result, heading, chunks, env, etap,
                   hubAged, calls>>
    /\ UNCHANGED <<parseVars, admitVars, normVars, hubVars, laterVars>>

\* a read of the user's submissions runs _mark_stale_submissions_failed
MarkStale ==
    /\ Suspended
    /\ sub' = mark_stale_submissions_failed(sub, stale)
    /\ sub' # sub
    /\ env' = [env EXCEPT !.marked = TRUE]
    /\ UNCHANGED <<pc, hub, conn, inflight, exc, result, heading, chunks, etap, stale,
                   hubAged, calls>>
    /\ UNCHANGED <<parseVars, admitVars, normVars, hubVars, laterVars>>

\* websocket_submission_handler: register, up to the replay sends
Connect(w) ==
    /\ Suspended
    /\ conn[w] = "idle"
    /\ hub' = register(hub, w)
    /\ hubAged' = AgeAfter(hub')
    /\ conn' = [conn EXCEPT ![w] = "replay"]
    /\ UNCHANGED <<pc, sub, inflight, exc, result, heading, chunks, env, etap, stale, calls>>
    /\ UNCHANGED <<parseVars, admitVars, normVars, hubVars, laterVars>>

\* register returned: the handler reads progress.completed
Replayed(w) ==
    /\ Suspended
    /\ conn[w] = "replay"
    /\ conn' = [conn EXCEPT ![w] = IF hub.exists /\ hub.completed THEN "linger" ELSE "open"]
    /\ UNCHANGED <<pc, sub, hub, inflight, exc, result, heading, chunks, env, etap, stale,
                   hubAged, calls>>
    /\ UNCHANGED <<parseVars, admitVars, normVars, hubVars, laterVars>>

\* the client went away, or receiving failed: finally unregister
Disconnect(w) ==
    /\ Suspended
    /\ conn[w] = "open"
    /\ conn' = [conn EXCEPT ![w] = "closed"]
    /\ hub' = unregister(hub)
    /\ UNCHANGED <<pc, sub, inflight, exc, result, heading, chunks, env, etap, stale,
                   hubAged, calls>>
    /\ UNCHANGED <<parseVars, admitVars, normVars, hubVars, laterVars>>

\* the handler saw the entry completed (at register, or after a client
\* message): finally unregister, then cleanup
CloseCompleted(w) ==
    /\ Suspended
    /\ \/ conn[w] = "linger"
       \/ conn[w] = "open" /\ hub.exists /\ hub.completed
    /\ conn' = [conn EXCEPT ![w] = "closed"]
    /\ hub' = NoEntry
    /\ hubAged' = FALSE
    /\ UNCHANGED <<pc, sub, inflight, exc, result, heading, chunks, env, etap, stale, calls>>
    /\ UNCHANGED <<parseVars, admitVars, normVars, hubVars, laterVars>>

\* the entry's age passes _CLEANUP_TTL_SECONDS
HubExpire ==
    /\ Suspended
    /\ hub.exists
    /\ ~hubAged
    /\ hubAged' = TRUE
    /\ UNCHANGED <<pc, sub, hub, conn, inflight, exc, result, heading, chunks, env, etap,
                   stale, calls>>
    /\ UNCHANGED <<parseVars, admitVars, normVars, hubVars, laterVars>>

\* the periodic cleanup_stale
Sweep ==
    /\ Suspended
    /\ IsSwept(hub, hubAged)
    /\ hub' = NoEntry
    /\ hubAged' = FALSE
    /\ UNCHANGED <<pc, sub, conn, inflight, exc, result, heading, chunks, env, etap, stale,
                   calls>>
    /\ UNCHANGED <<parseVars, admitVars, normVars, hubVars, laterVars>>

TaskStep ==
    \/ TaskStart \/ PushUploading \/ CheckPdf \/ CreateProvider \/ Upload
    \/ PushAnalyzing \/ ThinkingChunk \/ Translate \/ StreamText \/ StreamFail
    \/ Finalize \/ Persist \/ ExceptAI \/ FailAI \/ ExceptOther \/ FailOther
    \/ DeliverOk \/ DeliverFail

SubscriberStep ==
    \E w \in Sockets : Connect(w) \/ Replayed(w) \/ Disconnect(w) \/ CloseCompleted(w)

Next ==
    \/ TaskStep
    \/ SubscriberStep
    \/ PassTimeout
    \/ MarkStale
    \/ HubExpire
    \/ Sweep

Spec == Init /\ [][Next]_vars

\* ------------------------------------------------------------------------
\* SpecParse and SpecAdmit
\* ------------------------------------------------------------------------
InitParse ==
    /\ ptext \in Texts
    /\ petap \in Stages
    /\ presult = <<>>
    /\ AdmitIdle
    /\ PipeIdle
    /\ NormIdle
    /\ HubIdle
    /\ LaterIdle

SpecParse == InitParse /\ [][Parse]_vars

InitAdmit ==
    /\ apc = "start"
    /\ areq \in Requests
    /\ aresp = 0
    /\ afiles = 0
    /\ arecords = 0
    /\ ahub = 0
    /\ atasks = 0
    /\ achecked = FALSE
    /\ ParseIdle
    /\ PipeIdle
    /\ NormIdle
    /\ HubIdle
    /\ LaterIdle

SpecAdmit == InitAdmit /\ [][NextAdmit]_vars

\* ------------------------------------------------------------------------
\* Properties
\* ------------------------------------------------------------------------
TaskEnded == pc \in {"done", "crashed"}

\* C1: whenever the task has ended, it ended without an escaping exception
\* and the persisted status is COMPLETED or FAILED.
C1_TaskEndsTerminal == TaskEnded => (pc = "done" /\ sub.status \in Terminal)

\* C2: once the persisted status is COMPLETED or FAILED, no step of the task
\* or of the stale marking changes it.
C2_TerminalStatusFrozen ==
    [][sub.status \in Terminal => sub'.status = sub.status]_vars
\* the stale marking failed the row and the task then wrote its own outcome
C2_Witness ==
    /\ env.marked
    /\ pc = "done"
    /\ sub.status = "failed"
    /\ sub.error_message # <<ERR_STALE>>

\* C3: score and feedback are both set or both absent; FAILED implies
\* error_message is set; COMPLETED implies score and feedback are set.
C3_RecordInvariant ==
    /\ (sub.score = <<>>) <=> (sub.feedback = <<>>)
    /\ sub.status = "failed" => sub.error_message # <<>>
    /\ sub.status = "completed" => (sub.score # <<>> /\ sub.feedback # <<>>)
C3_Witness ==
    /\ pc = "fail_ai"
    /\ sub.status = "failed"
    /\ sub.error_message = <<ERR_TIMEOUT>>
    /\ sub.score = <<>>
    /\ sub.feedback = <<>>

\* C4: after an inference call, the persisted terminal status is FAILED
\* exactly when the call failed, and COMPLETED with the parsed score (0 for
\* text without JSON) when it returned answer text.
C4_FailedIffInferenceFailed ==
    (pc = "done" /\ env.called) =>
        /\ (sub.status = "failed") <=> (result = <<>>)
        /\ result # <<>> =>
              /\ sub.status = "completed"
              /\ sub.score = <<result[1].score>>
              /\ parse_ai_response(<<Word("w")>>, "Gemini", etap).score = 0

\* C5: when the inference returned a result, the task persists COMPLETED with
\* the result's score, feedback, issue classification, abuse score and
\* scoring metadata, and calls the hub's complete with that score and feedback.
C5_ResultPersistedThenCompleted ==
    (TaskEnded /\ result # <<>>) =>
        /\ sub.status = "completed"
        /\ sub.score = <<result[1].score>>
        /\ sub.feedback = <<result[1].feedback>>
        /\ sub.issue_type = result[1].issue_type
        /\ sub.abuse_score = result[1].abuse_score
        /\ sub.scoring_meta = SCORING_META
        /\ calls = [NoCall EXCEPT !.kind = "complete",
                                  !.score = <<result[1].score>>,
                                  !.feedback = <<result[1].feedback>>]

\* the fixed localized messages of the provider and of the task
FixedMessages ==
    {ERR_TIMEOUT, ERR_EMPTY, ERR_OVERLOADED, ERR_REJECTED, ERR_UNKNOWN, ERR_TECHNICAL,
     ERR_NO_TASK_PDF}

\* C6: the error text the task persisted and the text it pushed through the
\* hub's fail are the same fixed user-safe message, never an exception's text.
C6_OnlyUserSafeErrorTexts ==
    calls.kind = "fail" =>
        /\ calls.error[1] \in FixedMessages
        /\ sub.error_message # <<>>
        /\ sub.error_message[1] \in FixedMessages
        /\ sub.error_message = calls.error

\* the row the task leaves, given only what failed outside the hub
ExpectedRow(fault, res) ==
    IF fault # NoExc THEN update_status(NewSubmission, "failed", <<fault.msg>>)
    ELSE IF res = <<>> THEN update_status(NewSubmission, "processing", <<>>)
    ELSE update_result(update_status(NewSubmission, "processing", <<>>),
                       res[1].score, res[1].feedback, "completed", SCORING_META)

\* C7: the row the task has persisted when it ends is the one determined by
\* the failures outside the hub alone, whatever the subscribers did and
\* whichever sends failed.
C7_OutcomeIgnoresSubscriber == pc = "done" => sub = ExpectedRow(env.fault, result)
C7_Witness ==
    /\ pc = "done"
    /\ env.send_failed
    /\ \E w \in Sockets : conn[w] = "closed"
    /\ sub.status = "failed"

\* C8: once the admission check has run, the request is denied exactly when
\* the user is not allow-listed and the per-user count or the global count is
\* at or above its ceiling.
C8_DeniedIffAtCeiling ==
    achecked =>
        ((aresp = HTTP_TOO_MANY_REQUESTS) <=>
            /\ ~IsAllowlisted(areq.allowed_emails, areq.email)
            /\ \/ areq.user_count >= rate_limit_submissions_per_user_per_day
               \/ areq.global_count >= rate_limit_submissions_global_per_day)
C8_Witness ==
    /\ aresp = HTTP_TOO_MANY_REQUESTS
    /\ areq.user_count = rate_limit_submissions_per_user_per_day
    /\ areq.global_count < rate_limit_submissions_global_per_day

\* C9: a denied request has stored no file and created no row, hub entry or
\* task, and nothing of these exists before the admission check has finished.
C9_NoEffectOnDenial ==
    /\ aresp = HTTP_TOO_MANY_REQUESTS =>
          (afiles = 0 /\ arecords = 0 /\ ahub = 0 /\ atasks = 0)
    /\ (afiles > 0 \/ arecords > 0 \/ ahub > 0 \/ atasks > 0) => achecked
C9_Witness ==
    /\ aresp = HTTP_TOO_MANY_REQUESTS
    /\ areq.valid /\ areq.pdf_ok /\ areq.oversize = 0
    /\ areq.images \in 1..MAX_IMAGES
    /\ afiles = 0 /\ arecords = 0 /\ ahub = 0 /\ atasks = 0

\* C10: the score parse_ai_response returns is in the stage's valid set.
C10_ScoreInValidSet == presult # <<>> => presult[1].score \in ValidScores(petap)
C10_Witness ==
    /\ presult # <<>>
    /\ petap = "etap1"
    /\ ptext = Object(<<<<Tok("Ks"), Num(5)>>, <<Tok("Kf")>> \o Str(<<Word("w")>>)>>)
    /\ presult[1].score = 3

\* C12: a decoded object whose issue_type is wrong_task or injection yields
\* score 0 and the fixed feedback of that classification, whatever its score
\* and feedback members are; the model's own feedback is not returned.
C12_ClassificationForced ==
    (presult # <<>> /\ DecodedIssueType(ptext) \in {"wrong_task", "injection"}) =>
        /\ presult[1].score = 0
        /\ presult[1].feedback =
              FixedFeedback(IF DecodedIssueType(ptext) = "wrong_task"
                            THEN WRONG_TASK_FEEDBACK ELSE INJECTION_FEEDBACK, "", "")

\* C13: a text with no JSON, malformed JSON or an object with unusable members
\* gives score 0, issue type none, abuse score 0 and a fixed message, one that
\* carries no exception text.
C13_FailureIsFixedMessage ==
    (presult # <<>> /\ Unusable(ptext)) =>
        /\ presult[1].score = 0
        /\ presult[1].issue_type = "none"
        /\ presult[1].abuse_score = 0
        /\ presult[1].feedback.t = <<>>
        /\ presult[1].feedback.e = ""

\* C14: whatever surrounds a well-formed object {"score": N, "feedback": F},
\* the extraction returns the object it returns for the object alone.
C14_ExtractionIgnoresSurroundings ==
    presult # <<>> =>
        \A obj \in WellFormedObjects :
            ptext \in Wrappings(obj) =>
                /\ extract_json_from_text(obj).found
                /\ extract_json_from_text(ptext) = extract_json_from_text(obj)
\* the same for surroundings made of prose without braces and of fences
C14_ExtractionIgnoresPlainSurroundings ==
    presult # <<>> =>
        \A obj \in WellFormedObjects :
            ptext \in PlainWrappings(obj) =>
                /\ extract_json_from_text(obj).found
                /\ extract_json_from_text(ptext) = extract_json_from_text(obj)

\* ------------------------------------------------------------------------
\* SpecNormalize: normalize_omj_score applied once to a raw score
\* ------------------------------------------------------------------------
NormScores == (0 - MaxNormScore)..MaxNormScore

InitNormalize ==
    /\ nscore \in NormScores
    /\ nstage \in Stages
    /\ nresult = <<>>
    /\ ParseIdle
    /\ AdmitIdle
    /\ PipeIdle
    /\ HubIdle
    /\ LaterIdle

Normalize ==
    /\ nresult = <<>>
    /\ nresult' = <<normalize_omj_score(nscore, nstage)>>
    /\ UNCHANGED <<nscore, nstage, parseVars, admitVars, pipeVars, hubVars, laterVars>>

SpecNormalize == InitNormalize /\ [][Normalize]_vars

\* C11: for etap1 the score returned is 0 for s <= 0, 1 for s in {1,2} and 3
\* for s >= 3; for every other stage it is 0 for s <= 1, 2 for s in {2,3},
\* 5 for s in {4,5} and 6 for s >= 6; no smaller raw score gets a larger one.
C11_NormalizeBoundaries ==
    nresult # <<>> =>
        /\ nstage = "etap1" =>
              nresult[1] = (IF nscore <= 0 THEN 0 ELSE IF nscore <= 2 THEN 1 ELSE 3)
        /\ nstage # "etap1" =>
              nresult[1] = (IF nscore <= 1 THEN 0 ELSE IF nscore <= 3 THEN 2
                            ELSE IF nscore <= 5 THEN 5 ELSE 6)
        /\ \A s \in NormScores :
              s <= nscore => normalize_omj_score(s, nstage) <= nresult[1]
C11_Witness ==
    /\ nresult = <<2>>
    /\ nscore = 3
    /\ nstage = "etap3"

\* ------------------------------------------------------------------------
\* SpecHub: one entry of the ProgressManager under its three callers: the
\* request that creates it, the task that pushes into it, and the websocket
\* handlers that register on it.  The hub's lock is never held across an
\* await, so each locked section together with the code up to the next
\* awaited send or translation is one step.
\* ------------------------------------------------------------------------
HubRest == <<parseVars, admitVars, pipeVars, normVars, laterVars>>

InitHub ==
    /\ HubStart
    /\ LaterIdle
    /\ ParseIdle
    /\ AdmitIdle
    /\ PipeIdle
    /\ NormIdle

\* a new entry has a new created_at
AgedAfter(h) == IF ~table.exists /\ h.exists THEN FALSE ELSE aged
\* the entry objects the handlers hold once the table drops the entry
Detached ==
    [w \in HubSockets |->
        IF wprog[w] = "live" THEN (IF table.completed THEN "done" ELSE "notdone")
        ELSE wprog[w]]
\* _broadcast on the entry h of the message of push call number seq
Broadcast(h, msg, seq) ==
    IF BroadcastTarget(h) = 0
    THEN /\ inbox' = inbox
         /\ wseq' = wseq
    ELSE /\ wseq' = [wseq EXCEPT ![BroadcastTarget(h)] = seq]
         /\ inbox' = [inbox EXCEPT ![BroadcastTarget(h)] =
                         IF wpc[BroadcastTarget(h)] \in {"replaying", "registered"}
                         THEN Append(@, [msg |-> msg, via |-> "push"]) ELSE @]

\* submit_solution: create_submission, then the task is spawned
HubCreate ==
    /\ opos = "new"
    /\ table' = create_submission(table)
    /\ aged' = AgedAfter(table')
    /\ opos' = "pending"
    /\ UNCHANGED <<ohead, oseq, ochunks, ncalls, lastPushed, lostSince, terminal, inbox, wseq,
                   wpc, wqueue, wprog, wsnap, HubRest>>

\* the three send_status calls of the task, in the task's order
StatusAt(pos) ==
    CASE pos = "pending" -> MSG_UPLOADING
      [] pos = "uploading" -> MSG_ANALYZING
      [] pos = "stream" -> MSG_FINALIZING
AfterStatus(pos) ==
    CASE pos = "pending" -> "uploading"
      [] pos = "uploading" -> "stream"
      [] pos = "stream" -> "finalize"
HubPushStatus ==
    /\ opos \in {"pending", "uploading", "stream"}
    /\ ~ThinkingAwaited(ohead)
    /\ table' = send_status(table, StatusAt(opos))
    /\ aged' = AgedAfter(table')
    /\ ncalls' = ncalls + 1
    /\ Broadcast(table', StatusMessage(StatusAt(opos)), ncalls + 1)
    /\ lastPushed' = StatusAt(opos)
    /\ lostSince' = FALSE
    /\ opos' = AfterStatus(opos)
    /\ UNCHANGED <<ohead, oseq, ochunks, terminal, wpc, wqueue, wprog, wsnap, HubRest>>

\* send_thinking up to the awaited translation.  The headings are numbered in
\* the order they first appear.
HubThinking(chunk) ==
    /\ opos = "stream"
    /\ ~ThinkingAwaited(ohead)
    /\ ohead = ""
    /\ ochunks < MaxHubChunks
    /\ chunk = "H2" => "H1" \in {table.thinking_buffer[i] : i \in DOMAIN table.thinking_buffer}
    /\ ochunks' = ochunks + 1
    /\ ncalls' = ncalls + 1
    /\ table' = AppendChunk(table, chunk)
    /\ ohead' = NewHeading(table, chunk)
    /\ oseq' = IF NewHeading(table, chunk) # "" THEN ncalls + 1 ELSE 0
    /\ UNCHANGED <<aged, opos, lastPushed, lostSince, terminal, inbox, wseq, wpc, wqueue, wprog,
                   wsnap, HubRest>>

\* send_thinking after the translation returned
HubTranslated(ok) ==
    /\ ohead # ""
    /\ table' = StoreHeading(table, translate_to_polish(ohead, ok))
    /\ Broadcast(table', StatusMessage(translate_to_polish(ohead, ok)), oseq)
    /\ lastPushed' = translate_to_polish(ohead, ok)
    /\ lostSince' = ~table.exists
    /\ ohead' = ""
    /\ oseq' = 0
    /\ UNCHANGED <<aged, opos, ochunks, ncalls, terminal, wpc, wqueue, wprog, wsnap, HubRest>>

HubComplete(score) ==
    /\ opos = "finalize"
    /\ ~ThinkingAwaited(ohead)
    /\ table' = send_completed(table, score, "fb")
    /\ ncalls' = ncalls + 1
    /\ Broadcast(table', CompletedMessage(score, "fb"), ncalls + 1)
    /\ terminal' = <<CompletedMessage(score, "fb")>>
    /\ opos' = "done"
    /\ UNCHANGED <<aged, ohead, oseq, ochunks, lastPushed, lostSince, wpc, wqueue, wprog, wsnap, HubRest>>

HubFail ==
    /\ opos \in {"pending", "uploading", "stream", "finalize"}
    /\ ~ThinkingAwaited(ohead)
    /\ table' = send_error(table, ERR_TIMEOUT)
    /\ ncalls' = ncalls + 1
    /\ Broadcast(table', ErrorMessage(ERR_TIMEOUT), ncalls + 1)
    /\ terminal' = <<ErrorMessage(ERR_TIMEOUT)>>
    /\ opos' = "done"
    /\ UNCHANGED <<aged, ohead, oseq, ochunks, lastPushed, lostSince, wpc, wqueue, wprog, wsnap, HubRest>>

\* websocket_submission_handler: register under the lock and its first send.
\* The websockets are numbered in the order they connect.
HubConnect(w) ==
    /\ wpc[w] = "idle"
    /\ \A v \in HubSockets : v < w => wpc[v] # "idle"
    /\ table' = register(table, w)
    /\ aged' = AgedAfter(table')
    /\ wsnap' = [wsnap EXCEPT ![w] =
                    [inflight |-> opos \notin {"new", "done"}, finished |-> opos = "done",
                     last |-> lastPushed, lost |-> lostSince]]
    /\ wprog' = [wprog EXCEPT ![w] = "live"]
    /\ IF ReplayMessages(table') = <<>>
       THEN /\ inbox' = inbox
            /\ wqueue' = wqueue
       ELSE /\ inbox' = [inbox EXCEPT ![w] =
                            Append(@, [msg |-> Head(ReplayMessages(table')), via |-> "replay"])]
            /\ wqueue' = [wqueue EXCEPT ![w] = Tail(ReplayMessages(table'))]
    /\ wpc' = [wpc EXCEPT ![w] =
                  IF Len(ReplayMessages(table')) > 1 THEN "replaying" ELSE "registered"]
    /\ UNCHANGED <<opos, ohead, oseq, ochunks, ncalls, lastPushed, lostSince, terminal, wseq,
                   HubRest>>

\* register's next send of messages_to_send
HubReplayNext(w) ==
    /\ wpc[w] = "replaying"
    /\ inbox' = [inbox EXCEPT ![w] = Append(@, [msg |-> Head(wqueue[w]), via |-> "replay"])]
    /\ wqueue' = [wqueue EXCEPT ![w] = Tail(@)]
    /\ wpc' = [wpc EXCEPT ![w] = IF Len(wqueue[w]) > 1 THEN "replaying" ELSE "registered"]
    /\ UNCHANGED <<table, aged, opos, ohead, oseq, ochunks, ncalls, lastPushed, lostSince,
                   terminal, wseq, wprog, wsnap, HubRest>>

\* register has returned: the handler reads progress.completed
HubRegistered(w) ==
    /\ wpc[w] = "registered"
    /\ wpc' = [wpc EXCEPT ![w] =
                  IF (wprog[w] = "live" /\ table.completed) \/ wprog[w] = "done"
                  THEN "linger" ELSE "open"]
    /\ wprog' = [wprog EXCEPT ![w] = ""]
    /\ wsnap' = [wsnap EXCEPT ![w] = NoSnap]
    /\ inbox' = [inbox EXCEPT ![w] = <<>>]
    /\ UNCHANGED <<table, aged, opos, ohead, oseq, ochunks, ncalls, lastPushed, lostSince,
                   terminal, wseq, wqueue, HubRest>>

\* the table drops the entry
Drop ==
    /\ table' = NoEntry
    /\ aged' = FALSE
    /\ lostSince' = TRUE

\* the handler of a completed entry ends its sleep: unregister and cleanup
HubLingerEnd(w) ==
    /\ wpc[w] = "linger"
    /\ Drop
    /\ wprog' = Detached
    /\ wpc' = [wpc EXCEPT ![w] = "closed"]
    /\ wseq' = [wseq EXCEPT ![w] = 0]
    /\ UNCHANGED <<opos, ohead, oseq, ochunks, ncalls, lastPushed, terminal, inbox, wqueue,
                   wsnap, HubRest>>

\* a client message makes the handler see the entry completed: unregister
\* and cleanup
HubSeeCompleted(w) ==
    /\ wpc[w] = "open"
    /\ table.exists
    /\ table.completed
    /\ Drop
    /\ wprog' = Detached
    /\ wpc' = [wpc EXCEPT ![w] = "closed"]
    /\ wseq' = [wseq EXCEPT ![w] = 0]
    /\ UNCHANGED <<opos, ohead, oseq, ochunks, ncalls, lastPushed, terminal, inbox, wqueue,
                   wsnap, HubRest>>

\* the client goes away: unregister alone
HubDisconnect(w) ==
    /\ wpc[w] = "open"
    /\ table' = unregister(table)
    /\ wpc' = [wpc EXCEPT ![w] = "closed"]
    /\ wseq' = [wseq EXCEPT ![w] = 0]
    /\ UNCHANGED <<aged, opos, ohead, oseq, ochunks, ncalls, lastPushed, lostSince, terminal,
                   inbox, wqueue, wprog, wsnap, HubRest>>

\* the entry's age passes _CLEANUP_TTL_SECONDS
HubAge ==
    /\ table.exists
    /\ ~aged
    /\ aged' = TRUE
    /\ UNCHANGED <<table, opos, ohead, oseq, ochunks, ncalls, lastPushed, lostSince, terminal,
                   inbox, wseq, wpc, wqueue, wprog, wsnap, HubRest>>

\* the periodic cleanup_stale
HubSweep ==
    /\ IsSwept(table, aged)
    /\ Drop
    /\ wprog' = Detached
    /\ UNCHANGED <<opos, ohead, oseq, ochunks, ncalls, lastPushed, terminal, inbox, wseq, wpc,
                   wqueue, wsnap, HubRest>>

NextHub ==
    \/ HubCreate
    \/ HubPushStatus
    \/ \E chunk \in Chunks : HubThinking(chunk)
    \/ \E ok \in BOOLEAN : HubTranslated(ok)
    \/ HubComplete(5)
    \/ HubFail
    \/ \E w \in HubSockets :
          \/ HubConnect(w)
          \/ HubReplayNext(w)
          \/ HubRegistered(w)
          \/ HubLingerEnd(w)
          \/ HubSeeCompleted(w)
          \/ HubDisconnect(w)
    \/ HubAge
    \/ HubSweep

SpecHub == InitHub /\ [][NextHub]_vars

\* the websocket that registered last, 0 when none has
Latest ==
    IF \A w \in HubSockets : wpc[w] = "idle" THEN 0
    ELSE CHOOSE w \in HubSockets :
            wpc[w] # "idle" /\ \A v \in HubSockets : wpc[v] # "idle" => v <= w

\* C15: a websocket that connects after the terminal call, the entry still
\* being in the table, is sent the terminal message and nothing else.
C15_LateSubscriberGetsOnlyTerminal ==
    \A w \in HubSockets :
        (wpc[w] = "registered" /\ wsnap[w].finished /\ ~wsnap[w].lost) =>
            /\ Len(inbox[w]) = 1
            /\ inbox[w][1].msg = terminal[1]

\* C16: the entry holds one websocket at most, the one that registered last;
\* a register always installs its websocket, whether or not another one is
\* installed; a push is written to the websocket that registered last only.
C16_LastConnectWins ==
    /\ [](/\ table.websocket \in {0} \cup HubSockets
          /\ table.is_connected <=> table.websocket # 0
          /\ table.is_connected => table.websocket = Latest)
    /\ [][\A w \in HubSockets :
            (wpc[w] = "idle" /\ wpc'[w] # "idle") =>
                (table'.websocket = w /\ table'.is_connected)]_vars
    /\ [][\A w \in HubSockets :
            (wseq'[w] # wseq[w] /\ wseq'[w] # 0) => w = Latest]_vars
C16_Witness ==
    /\ wpc[1] = "open"
    /\ wpc[2] = "open"
    /\ table.websocket = 2
    /\ wseq[1] > 0
    /\ wseq[2] > wseq[1]

ReplayedTo(w) == SelectSeq(inbox[w], LAMBDA e : e.via = "replay")

C20_CreateIfAbsentLosesNothing ==
    /\ [][(opos = "new" /\ opos' = "pending") =>
            (IF table.exists THEN table' = table ELSE table' = SubmissionProgress)]_vars
    /\ [][\A w \in HubSockets :
            (wpc[w] = "idle" /\ wpc'[w] # "idle") =>
                /\ table'.exists
                /\ table'.websocket = w
                /\ table.exists =>
                      table' = [table EXCEPT !.websocket = w, !.is_connected = TRUE]]_vars
    /\ [][(opos \in {"pending", "uploading", "stream"} /\ opos' \notin {opos, "done"}) =>
            /\ table'.exists
            /\ table'.current_status = StatusAt(opos)
            /\ table.exists => table' = [table EXCEPT !.current_status = StatusAt(opos)]]_vars
C20_Witness ==
    /\ wpc[1] = "registered"
    /\ ~wsnap[1].inflight
    /\ ~wsnap[1].finished
    /\ opos = "uploading"
    /\ table.websocket = 1
    /\ table.current_status = MSG_UPLOADING
    /\ Len(inbox[1]) = 2

\* ------------------------------------------------------------------------
\* SpecSweep: cleanup_stale applied once to a table of entries
\* ------------------------------------------------------------------------
BaseIdle ==
    /\ ParseIdle
    /\ AdmitIdle
    /\ PipeIdle
    /\ NormIdle
    /\ HubIdle
BaseVars == <<parseVars, admitVars, pipeVars, normVars, hubVars>>

InitSweep ==
    /\ sentries \in [SweepIds -> SweepEntries]
    /\ snow = CLEANUP_TTL_SECONDS + AgeSlack
    /\ sswept = <<>>
    /\ BaseIdle
    /\ ReleaseIdle
    /\ DeadlineIdle
    /\ RaceIdle
    /\ ChanIdle
    /\ CacheIdle
    /\ InferIdle
    /\ RetryIdle
    /\ StreamIdle

SweepOnce ==
    /\ sswept = <<>>
    /\ sswept' = <<cleanup_stale(sentries, snow)>>
    /\ UNCHANGED <<sentries, snow, BaseVars, chanVars, cacheVars, inferVars, retryVars, streamVars, raceVars, deadlineVars, releaseVars>>

SpecSweep == InitSweep /\ [][SweepOnce]_vars

\* C21: cleanup_stale removes an entry exactly when it is completed with no
\* websocket connected, or its age is above the TTL; every other entry is left
\* as it was, and the count returned is the number removed.
C21_SweepRemovesExactly ==
    sswept # <<>> =>
        /\ \A i \in SweepIds :
              LET e == sentries[i]
                  gone == \/ e.completed /\ ~e.is_connected
                          \/ snow - e.created_at > CLEANUP_TTL_SECONDS
              IN  /\ (e.exists /\ gone) => ~sswept[1].table[i].exists
                  /\ (e.exists /\ ~gone) => sswept[1].table[i] = e
                  /\ ~e.exists => ~sswept[1].table[i].exists
        /\ sswept[1].count =
              Cardinality({i \in SweepIds : sentries[i].exists /\ ~sswept[1].table[i].exists})
C21_Witness ==
    /\ sswept # <<>>
    /\ sentries[1] = [exists |-> TRUE, completed |-> TRUE, is_connected |-> FALSE,
                      created_at |-> 2 * AgeSlack]
    /\ sentries[2] = [exists |-> TRUE, completed |-> TRUE, is_connected |-> TRUE,
                      created_at |-> AgeSlack]
    /\ ~sswept[1].table[1].exists
    /\ sswept[1].table[2].exists
    /\ sswept[1].count = 1

\* ------------------------------------------------------------------------
\* SpecChannel: one connection to /ws/submissions/{submission_id}
\* ------------------------------------------------------------------------
ChanRest == <<BaseVars, sweepVars, cacheVars, inferVars, retryVars, streamVars, raceVars, deadlineVars, releaseVars>>

InitChannel ==
    /\ cpc = "start"
    /\ creq \in ChannelRequests
    /\ cuser = ""
    /\ ccode = 0
    /\ chub = creq.entry
    /\ csent = <<>>
    /\ BaseIdle
    /\ ReleaseIdle
    /\ DeadlineIdle
    /\ RaceIdle
    /\ SweepIdle
    /\ CacheIdle
    /\ InferIdle
    /\ RetryIdle
    /\ StreamIdle

\* the session cookie is decoded; every failure leaves user_id None
ChanIdentify ==
    /\ cpc = "start"
    /\ cuser' = session_user_id(creq.auth_disabled, creq.session)
    /\ cpc' = "identified"
    /\ UNCHANGED <<creq, ccode, chub, csent, ChanRest>>

\* submission_repo.get_by_id; an unknown id closes the websocket
ChanLookup ==
    /\ cpc = "identified"
    /\ IF creq.submission.exists
       THEN cpc' = "found" /\ ccode' = ccode
       ELSE cpc' = "closed" /\ ccode' = WS_CLOSE_NOT_FOUND
    /\ UNCHANGED <<creq, cuser, chub, csent, ChanRest>>

\* the ownership test; a caller who is not the owner is closed
ChanAuthorize ==
    /\ cpc = "found"
    /\ IF owner_check(creq.auth_disabled, cuser, creq.submission)
       THEN cpc' = "authorized" /\ ccode' = ccode
       ELSE cpc' = "closed" /\ ccode' = WS_CLOSE_NOT_AUTHORIZED
    /\ UNCHANGED <<creq, cuser, chub, csent, ChanRest>>

\* websocket_submission_handler: accept, then register and its replay
ChanHandle ==
    /\ cpc = "authorized"
    /\ chub' = register(chub, 1)
    /\ csent' = ReplayMessages(register(chub, 1))
    /\ cpc' = "registered"
    /\ UNCHANGED <<creq, cuser, ccode, ChanRest>>

NextChannel ==
    \/ ChanIdentify
    \/ ChanLookup
    \/ ChanAuthorize
    \/ ChanHandle
SpecChannel == InitChannel /\ [][NextChannel]_vars

CallerIsOwner == creq.session \in UserIds /\ creq.session = creq.submission.user_id
ChanDone == cpc \in {"closed", "registered"}
\* C22: a subscriber is registered only if the submission exists and, with
\* authentication enabled, the caller is its owner; an unknown submission is
\* closed with 4004 and a caller who is not the owner with 4003, two different
\* codes, and in both cases the hub entry is untouched and nothing is sent.
C22_RegistersOnlyOwner ==
    /\ WS_CLOSE_NOT_FOUND # WS_CLOSE_NOT_AUTHORIZED
    /\ (cpc = "registered" \/ chub # creq.entry \/ csent # <<>>) =>
          /\ creq.submission.exists
          /\ creq.auth_disabled \/ CallerIsOwner
    /\ ChanDone =>
          /\ ~creq.submission.exists =>
                ccode = WS_CLOSE_NOT_FOUND /\ chub = creq.entry /\ csent = <<>>
          /\ (creq.submission.exists /\ ~creq.auth_disabled /\ ~CallerIsOwner) =>
                ccode = WS_CLOSE_NOT_AUTHORIZED /\ chub = creq.entry /\ csent = <<>>
          /\ (creq.submission.exists /\ (creq.auth_disabled \/ CallerIsOwner)) =>
                ccode = 0 /\ chub.is_connected /\ chub.websocket = 1
C22_Witness ==
    /\ cpc = "closed"
    /\ ~creq.auth_disabled
    /\ creq.session = "u2"
    /\ creq.submission = [exists |-> TRUE, user_id |-> "u1"]
    /\ ccode = WS_CLOSE_NOT_AUTHORIZED
    /\ creq.entry = SubmissionProgress
    /\ chub = SubmissionProgress

\* ------------------------------------------------------------------------
\* SpecCache: calls of _upload_file(path, use_cache) for one path, run as
\* tasks of one event loop while the file, the clock and the remote side change
\* ------------------------------------------------------------------------
CacheOthers == <<BaseVars, sweepVars, chanVars, inferVars, retryVars, streamVars, raceVars, deadlineVars>>
CacheRest == <<CacheOthers, releaseVars>>

InitCache ==
    /\ CacheStart
    /\ BaseIdle
    /\ frelease = [c \in Callers |-> "none"]
    /\ DeadlineIdle
    /\ RaceIdle
    /\ SweepIdle
    /\ ChanIdle
    /\ InferIdle
    /\ RetryIdle
    /\ StreamIdle

Now == ClockTimes[fclock]
\* client.files.upload is issued by caller c for the content the file has now
IssueUpload(call) ==
    [call EXCEPT !.pc = "upload", !.sent = fcontent, !.uploads = @ + 1]

\* _upload_file begins: the cache lookup, the TTL and hash tests run without
\* suspending; the call then awaits the probe or the upload
CacheCall(c, use_cache) ==
    /\ fcall[c].pc = "idle"
    /\ \A d \in Callers : d < c => fcall[d].pc # "idle"
    /\ LET verdict == IF use_cache THEN check_cached_file(fcache, Now, fcontent) ELSE "miss"
           begun == [fcall[c] EXCEPT !.use_cache = use_cache, !.seen = fcache,
                                     !.seen_content = fcontent, !.seen_at = Now]
       IN  /\ fcache' = IF verdict = "evict" THEN <<>> ELSE fcache
           /\ fuploads' = IF verdict = "probe" THEN fuploads ELSE fuploads + 1
           /\ fcall' = [fcall EXCEPT ![c] =
                  IF verdict = "probe"
                  THEN [begun EXCEPT !.pc = "probe", !.held = fcache]
                  ELSE [IssueUpload(begun) EXCEPT !.evicted = (verdict = "evict")]]
    /\ UNCHANGED <<fcontent, fclock, fmutated, CacheRest>>

\* client.files.get returns: the held reference is returned, or the probe
\* failed and the entry is deleted - a KeyError when it is no longer there
CacheProbed(c, alive) ==
    /\ fcall[c].pc = "probe"
    /\ IF alive
       THEN /\ fcall' = [fcall EXCEPT ![c] = [@ EXCEPT !.pc = "returned", !.probe = "ok",
                                                        !.ref = fcall[c].held[1].gemini_name]]
            /\ UNCHANGED <<fcache, fuploads>>
       ELSE IF fcache = <<>>
       THEN /\ fcall' = [fcall EXCEPT ![c] = [@ EXCEPT !.pc = "raised", !.probe = "gone"]]
            /\ UNCHANGED <<fcache, fuploads>>
       ELSE /\ fcache' = <<>>
            /\ fuploads' = fuploads + 1
            /\ fcall' = [fcall EXCEPT ![c] =
                   [IssueUpload(@) EXCEPT !.probe = "gone", !.evicted = TRUE]]
    /\ UNCHANGED <<fcontent, fclock, fmutated, CacheRest>>

\* client.files.upload returns: the new CachedFile is stored with the hash
\* the file has now, or the upload failed and the exception is raised
CacheUploaded(c, ok) ==
    /\ fcall[c].pc = "upload"
    /\ IF ok
       THEN LET entry == <<CachedFile(c, fcontent, Now)>>
            IN  /\ fcache' = IF fcall[c].use_cache THEN entry ELSE fcache
                /\ fcall' = [fcall EXCEPT ![c] =
                       [@ EXCEPT !.pc = "returned", !.ref = c,
                                 !.stored = IF fcall[c].use_cache THEN entry ELSE <<>>]]
       ELSE /\ fcall' = [fcall EXCEPT ![c] = [@ EXCEPT !.pc = "raised"]]
            /\ UNCHANGED fcache
    /\ UNCHANGED <<fcontent, fclock, fuploads, fmutated, CacheRest>>

\* the local file is rewritten with another content
FileChange(content) ==
    /\ content # fcontent
    /\ fcall[1].pc # "idle"
    /\ fcontent' = content
    /\ fmutated' = TRUE
    /\ UNCHANGED <<fcache, fclock, fuploads, fcall, CacheRest>>

\* time passes
ClockTick ==
    /\ fclock < Len(ClockTimes)
    /\ fclock' = fclock + 1
    /\ UNCHANGED <<fcache, fcontent, fuploads, fmutated, fcall, CacheRest>>

\* the gemini names in _file_cache.values()
CachedNames(cache) == {cache[i].gemini_name : i \in DOMAIN cache}
\* the inference call that was handed the reference of call c ends and its
\* finally clause runs _cleanup_files: the reference is deleted unless the
\* cache holds its name now
CacheRelease(c) ==
    /\ fcall[c].pc = "returned"
    /\ frelease[c] = "none"
    /\ frelease' = [frelease EXCEPT ![c] =
                       IF fcall[c].ref \in CachedNames(fcache) THEN "skipped" ELSE "deleted"]
    /\ UNCHANGED <<fcache, fcontent, fclock, fuploads, fmutated, fcall, CacheOthers>>

NextCache ==
    \/ \E c \in Callers, use_cache \in BOOLEAN : CacheCall(c, use_cache)
    \/ \E c \in Callers, alive \in BOOLEAN : CacheProbed(c, alive)
    \/ \E c \in Callers, ok \in BOOLEAN : CacheUploaded(c, ok)
    \/ \E content \in Contents : FileChange(content)
    \/ ClockTick
SpecCache == InitCache /\ [][NextCache]_vars

\* the first two calls were made for the cache, within the TTL of each other,
\* and the file's content has not been changed
TwoCallsUnchanged ==
    /\ \A c \in {1, 2} : fcall[c].pc # "idle" /\ fcall[c].use_cache
    /\ fcall[2].seen_at - fcall[1].seen_at < CACHE_TTL_SECONDS
    /\ ~fmutated
\* C23: two cacheable calls for the same unchanged file within the TTL issue
\* at most one upload call in total.
C23_AtMostOneUpload ==
    TwoCallsUnchanged => fcall[1].uploads + fcall[2].uploads <= 1
\* the same for two calls of which the second begins after the first has
\* returned, when the probe of the second succeeds
C23_SequentialProbedOnce ==
    (/\ TwoCallsUnchanged
     /\ fcall[1].stored # <<>>
     /\ fcall[2].seen = fcall[1].stored
     /\ fcall[2].probe # "gone")
        => fcall[1].uploads + fcall[2].uploads <= 1
C23_SequentialWitness ==
    /\ TwoCallsUnchanged
    /\ fcall[2].pc = "returned"
    /\ fcall[2].probe = "ok"
    /\ fcall[2].ref = fcall[1].ref
    /\ fuploads = 1

CallFinished(c) == fcall[c].use_cache /\ fcall[c].pc \in {"returned", "raised"}
\* the call returned a reference without issuing an upload
CacheHit(c) == fcall[c].use_cache /\ fcall[c].pc = "returned" /\ fcall[c].uploads = 0
\* an entry existed when the call began, younger than the TTL, with the hash
\* the file had, and the probe of the remote file succeeded
ReuseAllowed(c) ==
    /\ fcall[c].seen # <<>>
    /\ fcall[c].seen_at - fcall[c].seen[1].cached_at < CACHE_TTL_SECONDS
    /\ fcall[c].seen[1].file_hash = fcall[c].seen_content
    /\ fcall[c].probe = "ok"
\* the call uploaded once, returned the new reference and stored it
UploadedAfresh(c) ==
    /\ fcall[c].pc = "returned"
    /\ fcall[c].uploads = 1
    /\ fcall[c].seen # <<>> => fcall[c].evicted
    /\ fcall[c].stored # <<>>
    /\ fcall[c].stored[1].gemini_name = fcall[c].ref
    /\ fcall[c].stored[1].file_hash = fcall[c].sent
\* C24: a cacheable call returns the cached reference without uploading only
\* when an entry exists, its age is below the TTL, the recomputed hash equals
\* the stored one and the probe succeeds; in every other case the old entry is
\* evicted, the content is uploaded afresh and a new entry is stored.
C24_ReuseOnlyWhenValid ==
    \A c \in Callers :
        /\ CacheHit(c) => ReuseAllowed(c)
        /\ (CallFinished(c) /\ ~ReuseAllowed(c)) => UploadedAfresh(c)

\* ------------------------------------------------------------------------
\* SpecInfer: analyze_solution / analyze_solution_stream from the uploads to
\* the end of its finally clause
\* ------------------------------------------------------------------------
InferRest == <<BaseVars, sweepVars, chanVars, cacheVars, retryVars, streamVars, raceVars, deadlineVars, releaseVars>>

InitInfer ==
    /\ ipc = "start"
    /\ ifiles = [f \in Attachments |-> "idle"]
    /\ icache = {}
    /\ iuploaded = <<>>
    /\ ioutcome = ""
    /\ inames = {}
    /\ inext = 0
    /\ ideletes = <<>>
    /\ idelfailed = {}
    /\ ihad = {}
    /\ BaseIdle
    /\ ReleaseIdle
    /\ DeadlineIdle
    /\ RaceIdle
    /\ SweepIdle
    /\ ChanIdle
    /\ CacheIdle
    /\ RetryIdle
    /\ StreamIdle

Uploaded == {f \in Attachments : ifiles[f] = "uploaded"}
\* the finally clause begins: _cleanup_files(files) takes its cached_names
BeginCleanup(files) ==
    /\ inames' = cached_names(icache, TRUE)
    /\ inext' = 1
    /\ ihad' = Uploaded
    /\ ipc' = "cleanup"

\* _upload_files starts one _upload_file per attachment and awaits them jointly
InferUploadAll ==
    /\ ipc = "start"
    /\ ifiles' = [f \in Attachments |-> "inflight"]
    /\ ipc' = "uploading"
    /\ UNCHANGED <<icache, iuploaded, ioutcome, inames, inext, ideletes, idelfailed, ihad,
                   InferRest>>

\* one _upload_file ends; a cacheable one leaves its name in the cache. The
\* uploads are not cancelled when the joint await has raised
InferUploadEnds(f, ok) ==
    /\ ifiles[f] = "inflight"
    /\ ifiles' = [ifiles EXCEPT ![f] = IF ok THEN "uploaded" ELSE "failed"]
    /\ icache' = IF ok /\ UseCache(f) THEN icache \cup {f} ELSE icache
    /\ UNCHANGED <<ipc, iuploaded, ioutcome, inames, inext, ideletes, idelfailed, ihad,
                   InferRest>>

\* asyncio.gather returns the references of all attachments
InferGathered ==
    /\ ipc = "uploading"
    /\ \A f \in Attachments : ifiles[f] = "uploaded"
    /\ iuploaded' = [f \in Attachments |-> f]
    /\ ipc' = "inferring"
    /\ UNCHANGED <<ifiles, icache, ioutcome, inames, inext, ideletes, idelfailed, ihad,
                   InferRest>>

\* asyncio.gather raises the first exception of an upload: uploaded_files is
\* still the empty list when the finally clause runs
InferGatherRaises ==
    /\ ipc = "uploading"
    /\ \E f \in Attachments : ifiles[f] = "failed"
    /\ ioutcome' = "upload"
    /\ BeginCleanup(iuploaded)
    /\ UNCHANGED <<ifiles, icache, iuploaded, ideletes, idelfailed, InferRest>>

\* the inference ends: a result, the timeout, or an error of the backend
InferEnds(outcome) ==
    /\ ipc = "inferring"
    /\ ioutcome' = outcome
    /\ BeginCleanup(iuploaded)
    /\ UNCHANGED <<ifiles, icache, iuploaded, ideletes, idelfailed, InferRest>>

\* _cleanup_files handles one file: a cached name is skipped, any other is
\* deleted and a delete that raises is swallowed
InferCleanupFile(ok) ==
    /\ ipc = "cleanup"
    /\ inext <= Len(iuploaded)
    /\ IF iuploaded[inext] \in inames
       THEN /\ ok
            /\ inext' = inext + 1
            /\ UNCHANGED <<ideletes, idelfailed>>
       ELSE /\ ideletes' = Append(ideletes, iuploaded[inext])
            /\ idelfailed' = IF ok THEN idelfailed ELSE idelfailed \cup {iuploaded[inext]}
            /\ inext' = after_delete(inext, ok, Len(iuploaded))
    /\ UNCHANGED <<ipc, ifiles, icache, iuploaded, ioutcome, inames, ihad, InferRest>>

\* the finally clause is over: the call returns its result or raises
InferReturns ==
    /\ ipc = "cleanup"
    /\ inext > Len(iuploaded)
    /\ ipc' = IF ioutcome = "success" THEN "returned" ELSE "raised"
    /\ UNCHANGED <<ifiles, icache, iuploaded, ioutcome, inames, inext, ideletes, idelfailed,
                   ihad, InferRest>>

\* another call evicts the cache entry that holds the name
InferEvicted(name) ==
    /\ name \in icache
    /\ icache' = icache \ {name}
    /\ UNCHANGED <<ipc, ifiles, iuploaded, ioutcome, inames, inext, ideletes, idelfailed,
                   ihad, InferRest>>

NextInfer ==
    \/ InferUploadAll
    \/ \E f \in Attachments, ok \in BOOLEAN : InferUploadEnds(f, ok)
    \/ InferGathered
    \/ InferGatherRaises
    \/ \E outcome \in {"success", "timeout", "backend"} : InferEnds(outcome)
    \/ \E ok \in BOOLEAN : InferCleanupFile(ok)
    \/ InferReturns
    \/ \E name \in Attachments : InferEvicted(name)
SpecInfer == InitInfer /\ [][NextInfer]_vars

InferOver == ipc \in {"returned", "raised"}
\* C25: _cleanup_files with skip_cached never calls delete for a name that was
\* in the cache's value set when it was called, calls delete once for every
\* other name given to it, and a delete that raises neither changes how the
\* call ends nor keeps the later names from being deleted.
C25_ReleaseSkipsCachedOnly ==
    /\ SeqRange(ideletes) \cap inames = {}
    /\ SeqRange(ideletes) \subseteq SeqRange(iuploaded)
    /\ idelfailed \subseteq SeqRange(ideletes)
    /\ InferOver =>
          /\ \A name \in SeqRange(iuploaded) :
                Cardinality({i \in DOMAIN ideletes : ideletes[i] = name})
                    = IF name \in inames THEN 0 ELSE 1
          /\ (ipc = "returned") = (ioutcome = "success")
C25_Witness ==
    /\ ipc = "returned"
    /\ iuploaded = <<1, 2, 3>>
    /\ inames = {1}
    /\ ideletes = <<2, 3>>
    /\ idelfailed = {2}

\* C26: however the call ends, every attachment uploaded for it that the
\* cache does not hold has been passed to _cleanup_files when it returns.
C26_UploadedIsReleased ==
    InferOver => \A name \in ihad : name \notin inames => name \in SeqRange(iuploaded)

\* ------------------------------------------------------------------------
\* SpecRetry: _calculate_retry_after on timestamps around the reset time
\* ------------------------------------------------------------------------
RetryRest == <<BaseVars, sweepVars, chanVars, cacheVars, inferVars, streamVars, raceVars, deadlineVars, releaseVars>>
OldestTicks == 0..(2 * TicksPerSecond)
NowTicks ==
    (WindowTicks(WINDOW_HOURS) - MaxRetrySlack * TicksPerSecond)
        ..(WindowTicks(WINDOW_HOURS) + (MaxRetrySlack + 2) * TicksPerSecond)

InitRetry ==
    /\ roldest \in {<<>>} \cup {<<t>> : t \in OldestTicks}
    /\ rnow \in NowTicks
    /\ rresult = <<>>
    /\ BaseIdle
    /\ ReleaseIdle
    /\ DeadlineIdle
    /\ RaceIdle
    /\ SweepIdle
    /\ ChanIdle
    /\ CacheIdle
    /\ InferIdle
    /\ StreamIdle

RetryAfter ==
    /\ rresult = <<>>
    /\ rresult' = <<calculate_retry_after(roldest, WINDOW_HOURS, rnow)>>
    /\ UNCHANGED <<roldest, rnow, RetryRest>>

SpecRetry == InitRetry /\ [][RetryAfter]_vars

\* ticks from the call to the end of the window of the oldest timestamp
TicksToReset == roldest[1] + WINDOW_HOURS * 3600 * TicksPerSecond - rnow
\* C27: the retry-after value is the time from now to the oldest timestamp of
\* the window plus 24 hours, cut to whole seconds, and 1 when that is less
\* than one second.
C27_RetryAfterWholeSeconds ==
    (rresult # <<>> /\ roldest # <<>>) =>
        /\ rresult[1] >= 1
        /\ TicksToReset >= TicksPerSecond =>
              /\ rresult[1] * TicksPerSecond <= TicksToReset
              /\ TicksToReset < (rresult[1] + 1) * TicksPerSecond
        /\ TicksToReset < TicksPerSecond => rresult[1] = 1
C27_FloorWitness ==
    /\ rresult = <<1>>
    /\ roldest # <<>>
    /\ TicksToReset < 0
C27_Witness ==
    /\ rresult = <<3>>
    /\ roldest # <<>>
    /\ TicksToReset = 3 * TicksPerSecond + 1

\* ------------------------------------------------------------------------
\* SpecStream: stream_to_queue in its thread and the poll loop of
\* analyze_solution_stream; the steps of the two interleave freely
\* ------------------------------------------------------------------------
StreamRest == <<BaseVars, sweepVars, chanVars, cacheVars, inferVars, retryVars, raceVars, deadlineVars, releaseVars>>

InitStream ==
    /\ qitems = <<>>
    /\ qtotal \in 0..MaxStreamChunks
    /\ qput = 0
    /\ qdone = FALSE
    /\ qerror = FALSE
    /\ qworker = "streaming"
    /\ qconsumer = "poll"
    /\ qtaken = <<>>
    /\ BaseIdle
    /\ ReleaseIdle
    /\ DeadlineIdle
    /\ RaceIdle
    /\ SweepIdle
    /\ ChanIdle
    /\ CacheIdle
    /\ InferIdle
    /\ RetryIdle

\* the worker: chunk_queue.put(chunk) for the next chunk of the stream
WorkerPut ==
    /\ qworker = "streaming"
    /\ qput < qtotal
    /\ qput' = qput + 1
    /\ qitems' = Append(qitems, qput + 1)
    /\ UNCHANGED <<qtotal, qdone, qerror, qworker, qconsumer, qtaken, StreamRest>>

\* the worker: the stream is exhausted and the for loop ends
WorkerStreamEnds ==
    /\ qworker = "streaming"
    /\ qput = qtotal
    /\ qworker' = "finally"
    /\ UNCHANGED <<qitems, qtotal, qput, qdone, qerror, qconsumer, qtaken, StreamRest>>

\* the worker: the stream raises and stream_error is set
WorkerStreamRaises ==
    /\ qworker = "streaming"
    /\ qerror' = TRUE
    /\ qworker' = "finally"
    /\ UNCHANGED <<qitems, qtotal, qput, qdone, qconsumer, qtaken, StreamRest>>

\* the worker: finally stream_done_event.set()
WorkerSetsDone ==
    /\ qworker = "finally"
    /\ qdone' = TRUE
    /\ qworker' = "ended"
    /\ UNCHANGED <<qitems, qtotal, qput, qerror, qconsumer, qtaken, StreamRest>>

\* the consumer: elapsed > timeout at the top of the loop
ConsumerTimeout ==
    /\ qconsumer = "poll"
    /\ qconsumer' = "raised"
    /\ UNCHANGED <<qitems, qtotal, qput, qdone, qerror, qworker, qtaken, StreamRest>>

\* the consumer: the stream_error test, then chunk_queue.get_nowait()
ConsumerPoll ==
    /\ qconsumer = "poll"
    /\ IF qerror
       THEN qconsumer' = "raised" /\ UNCHANGED <<qitems, qtaken>>
       ELSE IF qitems # <<>>
       THEN /\ qtaken' = Append(qtaken, Head(qitems))
            /\ qitems' = Tail(qitems)
            /\ qconsumer' = "poll"
       ELSE qconsumer' = "is_set" /\ UNCHANGED <<qitems, qtaken>>
    /\ UNCHANGED <<qtotal, qput, qdone, qerror, qworker, StreamRest>>

\* the consumer, after queue.Empty: stream_done_event.is_set()
ConsumerReadsDone ==
    /\ qconsumer = "is_set"
    /\ qconsumer' = IF qdone THEN "empty" ELSE "poll"
    /\ UNCHANGED <<qitems, qtotal, qput, qdone, qerror, qworker, qtaken, StreamRest>>

\* the consumer, the event being set: chunk_queue.empty(), then break, or
\* sleep and poll again
ConsumerReadsEmpty ==
    /\ qconsumer = "empty"
    /\ qconsumer' = IF exit_test(TRUE, qitems = <<>>) THEN "exited" ELSE "poll"
    /\ UNCHANGED <<qitems, qtotal, qput, qdone, qerror, qworker, qtaken, StreamRest>>

NextStream ==
    \/ WorkerPut
    \/ WorkerStreamEnds
    \/ WorkerStreamRaises
    \/ WorkerSetsDone
    \/ ConsumerTimeout
    \/ ConsumerPoll
    \/ ConsumerReadsDone
    \/ ConsumerReadsEmpty
SpecStream == InitStream /\ [][NextStream]_vars

\* C28: when the consumer leaves the poll loop by its exit test, it has taken
\* every chunk the worker put, once each and in the order they were put; after
\* a stream that ended normally these are all the chunks of the stream.
C28_ExitTakesEveryChunk ==
    qconsumer = "exited" =>
        /\ qtaken = [i \in 1..qput |-> i]
        /\ qitems = <<>>
        /\ ~qerror => qput = qtotal
C28_Witness ==
    /\ qconsumer = "exited"
    /\ ~qerror
    /\ qtotal = MaxStreamChunks
    /\ qtaken = [i \in 1..MaxStreamChunks |-> i]
\* the worker put a chunk and set the event between the consumer's
\* queue.Empty and its exit test
C28_RaceWitness ==
    /\ qconsumer = "empty"
    /\ qdone
    /\ ~qerror
    /\ qitems # <<>>

\* the handler of websocket w runs and has not begun its teardown
Attached(w) == wpc[w] \in {"replaying", "registered", "open", "linger"}
\* C29: when the handler of A ends while a later subscriber B is the
\* registered one, B is still the registered subscriber of the same entry
\* afterwards.
C29_TeardownSparesSuccessor ==
    [][\A a, b \in HubSockets :
          (/\ a # b
           /\ Attached(a)
           /\ wpc'[a] = "closed"
           /\ Attached(b)
           /\ table.exists /\ table.is_connected /\ table.websocket = b)
              => (table'.exists /\ table'.is_connected /\ table'.websocket = b)]_vars

\* the orchestrator's send_completed or send_error
Finishes == terminal = <<>> /\ terminal' # <<>>
\* C30: the subscriber that registered last and is connected when the
\* orchestrator finishes is pushed the terminal message, and a subscriber
\* that registers on the finished entry is replayed it.
C30_TerminalReachesSubscriber ==
    [][/\ \A w \in HubSockets :
             (Finishes /\ Attached(w) /\ w = Latest) => wseq'[w] = ncalls'
       /\ \A w \in HubSockets :
             (terminal # <<>> /\ table.exists /\ table.completed
              /\ wpc[w] = "idle" /\ wpc'[w] # "idle")
                 => \E i \in 1..Len(ReplayMessages(table')) :
                       ReplayMessages(table')[i] = terminal[1]]_vars

\* the push half of C30 for the websocket the entry holds when the
\* orchestrator finishes
C30_PushReachesHeldSocket ==
    [][\A w \in HubSockets :
          (Finishes /\ Attached(w) /\ table.exists /\ table.is_connected
           /\ table.websocket = w) => wseq'[w] = ncalls']_vars

\* ---------------------------------------------------------------------
\* Concurrent submit requests of one user who is not on the allow-list
\* (main.py submit_solution).  Each request reads the window counts, then
\* suspends in "await img.read" while it stores its images, then creates
\* its submission row.
MaxRequests == 2
RaceRequests == 1..MaxRequests
RaceRest == <<BaseVars, sweepVars, chanVars, cacheVars, inferVars, retryVars, streamVars, deadlineVars, releaseVars>>
InitRace ==
    /\ gpc = [r \in RaceRequests |-> [at |-> "new", left |-> 0]]
    /\ gucount \in (rate_limit_submissions_per_user_per_day - CountSlack - 1)
                       .. rate_limit_submissions_per_user_per_day
    /\ ggcount \in (rate_limit_submissions_global_per_day - CountSlack - 1)
                       .. rate_limit_submissions_global_per_day
    /\ gseen = [r \in RaceRequests |-> <<>>]
    /\ BaseIdle
    /\ ReleaseIdle
    /\ DeadlineIdle
    /\ SweepIdle
    /\ ChanIdle
    /\ CacheIdle
    /\ InferIdle
    /\ RetryIdle
    /\ StreamIdle
    /\ DeadlineIdle

\* get_user_rate_limit_info, get_global_rate_limit_info and the two tests;
\* a request that passes goes on to store its n images
RaceCheck(r, n) ==
    /\ gpc[r].at = "new"
    /\ gseen' = [gseen EXCEPT ![r] = <<gucount, ggcount>>]
    /\ gpc' = [gpc EXCEPT ![r] =
                  IF AdmissionDecision(FALSE, gucount, ggcount) = "allow"
                  THEN [at |-> "saving", left |-> n]
                  ELSE [at |-> "denied", left |-> 0]]
    /\ UNCHANGED <<gucount, ggcount, RaceRest>>
\* "await img.read" of an image that is not the last one
RaceImageStored(r) ==
    /\ gpc[r].at = "saving"
    /\ gpc[r].left > 1
    /\ gpc' = [gpc EXCEPT ![r].left = @ - 1]
    /\ UNCHANGED <<gucount, ggcount, gseen, RaceRest>>
\* an image is larger than upload_max_size_mb: 400, nothing is created
RaceImageRejected(r) ==
    /\ gpc[r].at = "saving"
    /\ gpc' = [gpc EXCEPT ![r] = [at |-> "rejected", left |-> 0]]
    /\ UNCHANGED <<gucount, ggcount, gseen, RaceRest>>
\* the last img.read returned; submission_repo.create adds the row
RaceCreate(r) ==
    /\ gpc[r].at = "saving"
    /\ gpc[r].left = 1
    /\ gpc' = [gpc EXCEPT ![r] = [at |-> "created", left |-> 0]]
    /\ gucount' = gucount + 1
    /\ ggcount' = ggcount + 1
    /\ UNCHANGED <<gseen, RaceRest>>
NextRace ==
    \/ \E r \in RaceRequests, n \in 1..MaxImages : RaceCheck(r, n)
    \/ \E r \in RaceRequests : RaceImageStored(r)
    \/ \E r \in RaceRequests : RaceImageRejected(r)
    \/ \E r \in RaceRequests : RaceCreate(r)
SpecRace == InitRace /\ [][NextRace]_vars

\* C31: whatever the interleaving of the user's concurrent requests, the
\* user's rows inside the window never exceed the per-user ceiling and all
\* rows never exceed the global ceiling.
C31_CeilingsHold ==
    /\ gucount <= rate_limit_submissions_per_user_per_day
    /\ ggcount <= rate_limit_submissions_global_per_day
\* the second half of C31: no request passes its check while another request
\* is between its own check and its creation
C31_NoAdmissionInBetween ==
    [][\A r, o \in RaceRequests :
          (r # o /\ gpc[o].at = "saving" /\ gpc[r].at = "new")
              => gpc'[r].at # "saving"]_vars
\* a single request never takes the count past a ceiling it read below it
C31_SingleRequestWitness ==
    /\ \E r \in RaceRequests : gpc[r].at = "created"
    /\ \E r \in RaceRequests : gpc[r].at = "denied"
    /\ gucount = rate_limit_submissions_per_user_per_day

\* ---------------------------------------------------------------------
\* The order of the task's observable steps (handler.py
\* process_submission_background), under Spec.
\* C32: every run of the task persists PROCESSING, pushes "uploading", pushes
\* "analyzing" only after the upload succeeded, pushes the headings of the
\* reasoning, and ends with exactly one terminal hub call, complete after
\* COMPLETED was persisted or fail after FAILED was persisted.
C32_RunEndsWithTerminalCall ==
    /\ TaskEnded => calls.kind \in {"complete", "fail"}
    /\ calls.kind = "complete" => sub.status = "completed"
    /\ calls.kind = "fail" => sub.status = "failed"
\* the order of the steps that do occur: "uploading" follows PROCESSING,
\* "analyzing" follows a successful upload, headings are pushed only during
\* the stream, a terminal call follows its persisted status, is the only one
\* and is followed by no status
C32_StepsInOrder ==
    [][/\ pc = "push_uploading" => sub.status = "processing"
       /\ (hub.exists /\ hub'.exists /\ hub'.current_status = MSG_ANALYZING
           /\ hub.current_status # MSG_ANALYZING)
              => (pc = "push_analyzing" /\ env.called)
       /\ pc = "translate" => (env.called /\ calls.kind = "")
       /\ (calls.kind = "" /\ calls'.kind = "complete") => sub'.status = "completed"
       /\ (calls.kind = "" /\ calls'.kind = "fail") => sub'.status = "failed"
       /\ calls.kind # "" =>
             /\ calls' = calls
             /\ (hub.exists /\ hub'.exists) => hub'.current_status = hub.current_status]_vars
\* a run whose upload failed: the terminal call was made and "analyzing" was
\* never pushed
C32_UploadFailedWitness ==
    /\ pc = "done"
    /\ calls.kind = "fail"
    /\ env.called
    /\ hub.exists
    /\ hub.current_status = MSG_UPLOADING

\* ---------------------------------------------------------------------
\* C37: once the worker has recorded an exception in stream_error, the
\* consumer leaves the poll loop by raising it, never by the exit test, and
\* takes no further chunk.
C37_RecordedErrorAborts ==
    qconsumer = "exited" => ~qerror
\* the part of C37 that holds: an iteration that starts with stream_error
\* set takes no chunk and ends the loop by raising
C37_IterationWithErrorRaises ==
    [][(qerror /\ qconsumer = "poll" /\ qconsumer' # "poll")
          => (qconsumer' = "raised" /\ qtaken' = qtaken /\ qitems' = qitems)]_vars
\* the error was recorded with chunks still queued, and the consumer raised
\* without taking them
C37_AbortWitness ==
    /\ qerror
    /\ qconsumer = "raised"
    /\ qitems # <<>>

\* ---------------------------------------------------------------------
\* SpecDeadline: the poll loop of analyze_solution_stream against the
\* provider timeout, with a response stream that may never end.  Time is
\* counted in poll intervals (the sleep of 0.05 s) and passes at any moment.
\* ---------------------------------------------------------------------
TimeoutTicks == 2       \* get_timeout(), in poll intervals
JoinTicks == 1          \* the timeout of stream_future.result, in poll intervals
MaxUpstream == 2        \* chunks of a response stream that ends
MaxQueued == 2          \* chunks chunk_queue holds at one time
MaxClock == TimeoutTicks + JoinTicks + 1
\* a loop that never looks at the clock
deadline_never(elapsed, timeout) == FALSE
\* if elapsed > timeout
deadline_passed(elapsed, timeout) == elapsed > timeout
DeadlineRest == <<BaseVars, sweepVars, chanVars, cacheVars, inferVars, retryVars,
                  streamVars, raceVars, releaseVars>>
InLoop == tloop \in {"top", "empty", "sleeping", "callback"}

InitDeadline ==
    /\ tclock = 0
    /\ tstream \in {[endless |-> TRUE, left |-> 0]}
                       \cup {[endless |-> FALSE, left |-> n] : n \in 0..MaxUpstream}
    /\ tworker = "streaming"
    /\ tqueue = 0
    /\ tdone = FALSE
    /\ terror = FALSE
    /\ tloop = "top"
    /\ twake = 0
    /\ tout = ""
    /\ tlate = 0
    /\ BaseIdle
    /\ ReleaseIdle
    /\ SweepIdle
    /\ ChanIdle
    /\ CacheIdle
    /\ InferIdle
    /\ RetryIdle
    /\ StreamIdle
    /\ RaceIdle

\* time passes
Tick ==
    /\ \/ tclock < MaxClock
       \/ tloop \in {"sleeping", "join"} /\ tclock < twake
    /\ tclock' = tclock + 1
    /\ UNCHANGED <<tstream, tworker, tqueue, tdone, terror, tloop, twake, tout, tlate,
                   DeadlineRest>>

\* the worker: the stream yields a chunk, chunk_queue.put(chunk)
StreamPut ==
    /\ tworker = "streaming"
    /\ tstream.endless \/ tstream.left > 0
    /\ tqueue < MaxQueued
    /\ tlate < 1
    /\ tqueue' = tqueue + 1
    /\ tstream' = IF tstream.endless THEN tstream ELSE [tstream EXCEPT !.left = @ - 1]
    /\ tlate' = IF tloop = "returned" THEN tlate + 1 ELSE tlate
    /\ UNCHANGED <<tclock, tworker, tdone, terror, tloop, twake, tout, DeadlineRest>>
\* the worker: the stream is exhausted
StreamEnds ==
    /\ tworker = "streaming"
    /\ ~tstream.endless
    /\ tstream.left = 0
    /\ tworker' = "finally"
    /\ UNCHANGED <<tclock, tstream, tqueue, tdone, terror, tloop, twake, tout, tlate,
                   DeadlineRest>>
\* the worker: the stream raises, stream_error = e
StreamRaises ==
    /\ tworker = "streaming"
    /\ terror' = TRUE
    /\ tworker' = "finally"
    /\ UNCHANGED <<tclock, tstream, tqueue, tdone, tloop, twake, tout, tlate,
                   DeadlineRest>>
\* the worker: finally stream_done_event.set(), and the thread ends
StreamSetsDone ==
    /\ tworker = "finally"
    /\ tdone' = TRUE
    /\ tworker' = "ended"
    /\ UNCHANGED <<tclock, tstream, tqueue, terror, tloop, twake, tout, tlate,
                   DeadlineRest>>

\* the loop is left by an exception or by break: the finally clause begins
\* stream_future.result(timeout=5)
LeaveLoop(how) ==
    /\ tloop' = "join"
    /\ tout' = how
    /\ twake' = tclock + JoinTicks
\* the top of an iteration: the deadline test, the stream_error test and
\* chunk_queue.get_nowait(); a chunk with a thought part awaits on_thinking
LoopTop ==
    /\ tloop = "top"
    /\ IF deadline_passed(tclock, TimeoutTicks)
       THEN LeaveLoop(ERR_TIMEOUT) /\ UNCHANGED tqueue
       ELSE IF terror
       THEN LeaveLoop("stream_error") /\ UNCHANGED tqueue
       ELSE IF tqueue > 0
       THEN /\ tqueue' = tqueue - 1
            /\ \E thought \in BOOLEAN : tloop' = IF thought THEN "callback" ELSE "top"
            /\ UNCHANGED <<tout, twake>>
       ELSE tloop' = "empty" /\ UNCHANGED <<tqueue, tout, twake>>
    /\ UNCHANGED <<tclock, tstream, tworker, tdone, terror, tlate, DeadlineRest>>
\* await on_thinking(text) returns
CallbackReturns ==
    /\ tloop = "callback"
    /\ tloop' = "top"
    /\ UNCHANGED <<tclock, tstream, tworker, tqueue, tdone, terror, twake, tout, tlate,
                   DeadlineRest>>
\* except queue.Empty: the exit test, then break or asyncio.sleep(0.05)
LoopEmpty ==
    /\ tloop = "empty"
    /\ IF exit_test(tdone, tqueue = 0)
       THEN LeaveLoop("break")
       ELSE tloop' = "sleeping" /\ twake' = tclock + 1 /\ UNCHANGED tout
    /\ UNCHANGED <<tclock, tstream, tworker, tqueue, tdone, terror, tlate, DeadlineRest>>
\* asyncio.sleep(0.05) returns
LoopWakes ==
    /\ tloop = "sleeping"
    /\ tclock >= twake
    /\ tloop' = "top"
    /\ UNCHANGED <<tclock, tstream, tworker, tqueue, tdone, terror, twake, tout, tlate,
                   DeadlineRest>>
\* stream_future.result(timeout=5) returns or times out, then
\* executor.shutdown(wait=False); analyze_solution_stream goes on and returns
JoinEnds ==
    /\ tloop = "join"
    /\ tworker = "ended" \/ tclock >= twake
    /\ tloop' = "returned"
    /\ UNCHANGED <<tclock, tstream, tworker, tqueue, tdone, terror, twake, tout, tlate,
                   DeadlineRest>>

ConsumerStep == LoopTop \/ CallbackReturns \/ LoopEmpty \/ LoopWakes \/ JoinEnds
NextDeadline ==
    \/ Tick
    \/ StreamPut
    \/ StreamEnds
    \/ StreamRaises
    \/ StreamSetsDone
    \/ LoopTop
    \/ CallbackReturns
    \/ LoopEmpty
    \/ LoopWakes
    \/ JoinEnds
SpecDeadline == InitDeadline /\ [][NextDeadline]_vars
\* the event loop keeps running the coroutine and time keeps passing; the
\* worker gets no fairness, the upstream may stall for ever
SpecDeadlineFair ==
    /\ SpecDeadline
    /\ WF_vars(ConsumerStep)
    /\ WF_vars(Tick)

\* C33: an iteration of the poll loop that begins after the deadline leaves
\* the loop with the fixed timeout text, whatever the queue and the worker
\* hold; a wait for a chunk that began before the deadline lasts one poll
\* interval; and the loop is always left.
C33_DeadlineEndsLoop ==
    /\ [][/\ (tloop = "top" /\ tclock > TimeoutTicks /\ tloop' # tloop)
                => (tloop' = "join" /\ tout' = ERR_TIMEOUT)
          /\ tloop' = "sleeping" => twake' <= tclock' + 1
          /\ (tout = "" /\ tout' = ERR_TIMEOUT) => tclock > TimeoutTicks]_vars
    /\ <>(~InLoop)
\* the deadline ended a loop whose stream never ends and whose queue still
\* held a chunk
C33_Witness ==
    /\ tloop = "returned"
    /\ tout = ERR_TIMEOUT
    /\ tstream.endless
    /\ tworker = "streaming"
    /\ tqueue > 0

\* C34: after analyze_solution_stream has left its finally clause the worker
\* enqueues no further chunk and has ended or will end, also when the
\* upstream stream never ends.
C34_WorkerStopsAfterReturn ==
    [][tloop = "returned" => (tqueue' = tqueue /\ tlate' = tlate)]_vars
\* the liveness half of C34: the worker thread ends
C34_WorkerEnds == <>(tworker = "ended")
\* the part of C34 that holds: the wait for the worker in the finally clause
\* is bounded, the call returns although the worker still runs
C34_JoinIsBounded == (tloop = "join") ~> (tloop = "returned")
C34_ReleasedWhileRunningWitness ==
    /\ tloop = "returned"
    /\ tworker = "streaming"
    /\ tclock >= twake

\* ---------------------------------------------------------------------
\* C35: a call whose probe failed evicts only the entry it looked up: it
\* leaves an entry that another call stored in the meantime, and it does not
\* fail when the entry is already gone.
C35_EvictionOnlyOfOwnLookup ==
    [][\A c \in Callers :
          (fcall[c].pc = "probe" /\ fcall'[c].pc # "probe") =>
              /\ fcall'[c].pc # "raised"
              /\ fcache # fcall[c].held => fcache' = fcache]_vars
\* the two halves of C35 apart
C35_NoFailureOnGoneEntry ==
    \A c \in Callers : fcall[c].pc = "raised" => fcall[c].probe # "gone"
C35_FreshEntryKept ==
    [][\A c \in Callers :
          (fcall[c].pc = "probe" /\ fcall'[c].pc # "probe"
           /\ fcache # <<>> /\ fcache # fcall[c].held) => fcache' = fcache]_vars
\* without an intervening call the eviction removes the looked-up entry
C35_OwnEntryEvictedWitness ==
    \E c \in Callers :
        /\ fcall[c].probe = "gone"
        /\ fcall[c].evicted
        /\ fcall[c].held # <<>>
        /\ fcache = <<>>
        /\ \A d \in Callers \ {c} : fcall[d].pc \in {"idle", "returned"}

\* ---------------------------------------------------------------------
\* SpecShare: the calls of _upload_file for one path together with the
\* cleanup of the inference calls they belong to, at one instant and with
\* the file unchanged: entries are replaced by concurrent uploads and
\* evicted by failed probes only
\* ---------------------------------------------------------------------
NextShare ==
    \/ \E c \in Callers, use_cache \in BOOLEAN : CacheCall(c, use_cache)
    \/ \E c \in Callers, alive \in BOOLEAN : CacheProbed(c, alive)
    \/ \E c \in Callers, ok \in BOOLEAN : CacheUploaded(c, ok)
    \/ \E c \in Callers : CacheRelease(c)
SpecShare == InitCache /\ [][NextShare]_vars

\* the inference call that was handed the reference of call c still runs
InFlight(c) == fcall[c].pc = "returned" /\ frelease[c] = "none"
\* C36: the cleanup of one call never deletes a reference that another call,
\* still in flight, was handed.
C36_HeldReferenceNotDeleted ==
    [][\A c, d \in Callers :
          (/\ c # d
           /\ frelease[c] = "none"
           /\ frelease'[c] = "deleted"
           /\ InFlight(d))
              => fcall[d].ref # fcall[c].ref]_vars
\* while the cache still holds the shared reference, the cleanup of one
\* holder skips it and the other holder goes on
C36_SharedSkippedWitness ==
    \E c, d \in Callers :
        /\ c # d
        /\ frelease[c] = "skipped"
        /\ InFlight(d)
        /\ fcall[d].ref = fcall[c].ref

\* ---------------------------------------------------------------------
\* C38: a websocket that connects after the terminal call is replayed the
\* terminal message, also when an earlier subscriber has received it and
\* gone.
C38_LateConnectGetsTerminal ==
    \A w \in HubSockets :
        (wpc[w] = "registered" /\ wsnap[w].finished) =>
            \E i \in DOMAIN inbox[w] :
                inbox[w][i] = [msg |-> terminal[1], via |-> "replay"]
\* while the entry is still in the table the second subscriber is replayed
\* the terminal message although the first one received it and disconnected
C38_SecondSubscriberWitness ==
    /\ wpc[1] = "closed"
    /\ wpc[2] = "registered"
    /\ wsnap[2].finished
    /\ ~wsnap[2].lost
    /\ \E i \in DOMAIN inbox[2] : inbox[2][i] = [msg |-> terminal[1], via |-> "replay"]

\* ---------------------------------------------------------------------
\* the terminal message was written to websocket w by the terminal call
PushedTerminal(w) == terminal # <<>> /\ wseq[w] = ncalls
\* what register and the pushes wrote to w while register was sending
TerminalsIn(w) == {i \in DOMAIN inbox[w] : inbox[w][i].msg.type \in {"completed", "error"}}
\* C39: a websocket is written the terminal message at most once, by
\* register's replay or by the push of the terminal call, never by both,
\* however its connect interleaves with the terminal call.
C39_TerminalAtMostOnce ==
    \A w \in HubSockets :
        /\ Cardinality(TerminalsIn(w)) <= 1
        /\ PushedTerminal(w) =>
              /\ \A i \in TerminalsIn(w) : inbox[w][i].via = "push"
              /\ wpc[w] \in {"replaying", "registered"} =>
                    (~wsnap[w].finished /\ TerminalsIn(w) # {})
        /\ (wpc[w] \in {"replaying", "registered"} /\ wsnap[w].finished) =>
              \A i \in TerminalsIn(w) : inbox[w][i].via = "replay"
\* the terminal call ran while register was still sending its replay: the
\* websocket has the replayed status and the pushed terminal message
C39_Witness ==
    /\ terminal # <<>>
    /\ wpc[1] = "registered"
    /\ ~wsnap[1].finished
    /\ Len(inbox[1]) = 2
    /\ inbox[1][1].via = "replay"
    /\ inbox[1][1].msg.type = "status"
    /\ inbox[1][2] = [msg |-> terminal[1], via |-> "push"]

\* ---------------------------------------------------------------------
\* SpecThinking: send_thinking on an entry whose buffer already holds some
\* chunks, among them markers that are blank between their asterisks, while
\* websockets connect and disconnect and the sweep removes the entry
\* ---------------------------------------------------------------------
MaxBuffer == 1          \* chunks the buffer holds when the chunk arrives
ThinkingChunks == Chunks \cup {BlankHeading}
\* the buffers the task can have filled: H2 comes after H1
Buffers ==
    {buf \in UNION {[1..n -> ThinkingChunks] : n \in 0..MaxBuffer} :
        \A i \in DOMAIN buf : buf[i] = "H2" => \E j \in 1..(i - 1) : buf[j] = "H1"}
\* the status the entry holds after send_thinking ran on each chunk of buf
\* and every translation succeeded
RECURSIVE StatusOf(_)
StatusOf(buf) ==
    IF buf = <<>> THEN MSG_ANALYZING
    ELSE LET before == SubSeq(buf, 1, Len(buf) - 1)
             head == NewHeading([SubmissionProgress EXCEPT !.thinking_buffer = before],
                                buf[Len(buf)])
         IN  IF head # "" THEN translate_to_polish(head, TRUE) ELSE StatusOf(before)

InitThinking ==
    /\ table \in {[SubmissionProgress EXCEPT !.thinking_buffer = buf,
                                            !.current_status = StatusOf(buf)] :
                     buf \in Buffers}
    /\ aged = FALSE
    /\ opos = "stream"
    /\ ohead = ""
    /\ oseq = 0
    /\ ochunks = 0
    /\ ncalls = 2 + Len(table.thinking_buffer)
    /\ lastPushed = table.current_status
    /\ lostSince = FALSE
    /\ terminal = <<>>
    /\ inbox = [w \in HubSockets |-> <<>>]
    /\ wseq = [w \in HubSockets |-> 0]
    /\ wpc = [w \in HubSockets |-> "idle"]
    /\ wqueue = [w \in HubSockets |-> <<>>]
    /\ wprog = [w \in HubSockets |-> ""]
    /\ wsnap = [w \in HubSockets |-> NoSnap]
    /\ LaterIdle
    /\ ParseIdle
    /\ AdmitIdle
    /\ PipeIdle
    /\ NormIdle
NextThinking ==
    \/ \E chunk \in ThinkingChunks : HubThinking(chunk)
    \/ \E ok \in BOOLEAN : HubTranslated(ok)
    \/ \E w \in HubSockets : HubConnect(w)
    \/ \E w \in HubSockets : HubRegistered(w)
    \/ \E w \in HubSockets : HubDisconnect(w)
    \/ HubAge
    \/ HubSweep
SpecThinking == InitThinking /\ [][NextThinking]_vars
\* translate_to_polish returns within translate_timeout: asyncio.wait_for
SpecThinkingFair == SpecThinking /\ WF_vars(\E ok \in BOOLEAN : HubTranslated(ok))

\* send_thinking has taken a chunk
ChunkTaken == ochunks' = ochunks + 1
HeadingBefore == extract_latest_heading(table.thinking_buffer)
HeadingAfter == extract_latest_heading(table'.thinking_buffer)
\* the translation has returned and send_thinking broadcasts
StatusPushed == ohead # "" /\ ohead' = ""
\* what C40 says of the text and of the translation, common to both readings
PushedTextIsHeading ==
    /\ [][StatusPushed =>
            /\ lastPushed' \in {translate_to_polish(ohead, TRUE), ohead}
            /\ translate_to_polish(ohead, FALSE) = ohead
            /\ table'.exists => table'.current_status = lastPushed'
            /\ BroadcastTarget(table') # 0 =>
                  /\ wseq'[BroadcastTarget(table')] = oseq
                  /\ wpc[BroadcastTarget(table')] = "registered" =>
                        inbox'[BroadcastTarget(table')]
                            = Append(inbox[BroadcastTarget(table')],
                                     [msg |-> StatusMessage(lastPushed'), via |-> "push"])]_vars
    /\ [][lastPushed' # lastPushed => StatusPushed]_vars
    /\ (ohead # "") ~> (ohead = "")
\* C40 as stated: for an entry that exists, a status is pushed exactly when
\* the latest heading after the chunk differs from the latest one before it,
\* and the text is the heading's translation or, when the translation fails
\* or times out, the heading itself.
C40_PushIffHeadingDiffers ==
    /\ [][(ChunkTaken /\ table.exists) =>
            /\ (ohead' # "") <=> (HeadingAfter # HeadingBefore)
            /\ ohead' # "" => ohead' = HeadingAfter]_vars
    /\ PushedTextIsHeading
\* C40 amended: a status is pushed exactly when the entry exists and the
\* latest heading after the chunk is not empty and differs from the latest
\* one before it; the text is as stated.
C40_PushIffNonEmptyHeadingDiffers ==
    /\ [][ChunkTaken =>
            /\ (ohead' # "") <=>
                  (table.exists /\ HeadingAfter # "" /\ HeadingAfter # HeadingBefore)
            /\ ohead' # "" => ohead' = HeadingAfter]_vars
    /\ PushedTextIsHeading
\* the translation of a changed heading failed and the untranslated heading
\* was pushed to the attached websocket
C40_Witness ==
    /\ ochunks = 1
    /\ ohead = ""
    /\ table.exists
    /\ extract_latest_heading(table.thinking_buffer) = "H2"
    /\ table.thinking_buffer[Len(table.thinking_buffer)] = "H2"
    /\ lastPushed = "H2"
    /\ table.current_status = "H2"
    /\ \E w \in HubSockets : wpc[w] = "open" /\ wseq[w] = ncalls

====
